---- MODULE Spec2Model ----
(***************************************************************************)
(* Model of the nginx access-log analyzers of this repository:             *)
(*   src/high_performance_analyzer.py  HighPerformanceNginxAnalyzer        *)
(*   src/nginx_log_analyzer.py         NginxLogAnalyzer                    *)
(*   src/simple_nginx_analyzer.py      analyze_nginx_logs / quick_analysis *)
(*                                                                         *)
(* Text is modelled as a sequence of tokens.  A token is a line            *)
(* terminator (LF, CR), an undecodable byte (BAD, only inside files) or a  *)
(* chunk: a record standing for the text of one log record, carrying the   *)
(* fields the analyzers look at.  A str passed to process_line is a        *)
(* sequence of tokens without BAD.                                         *)
(***************************************************************************)
EXTENDS Integers, Sequences, FiniteSets, TLC

\* ------------------------------------------------------------------------
\* Bounds of the model
\* ------------------------------------------------------------------------

\* number of lines fed to one analyzer in a behaviour of Spec
MaxLines == 3

\* number of tokens of an input file in SpecFile
MaxFileLen == 4

\* largest batch_size tried by process_file_streaming in SpecFile
MaxBatch == 2

\* at most this many rows in the members table
MaxMembers == 4

\* the most rows of the matches table
MaxMatches == 2

\* the most tournaments stored, in the table and in the store of the API
MaxTournaments == 2

\* the days date.today() runs through
MaxDays == 2

\* ------------------------------------------------------------------------
\* Tokens
\* ------------------------------------------------------------------------

LF == [kind |-> "LF"]

CR == [kind |-> "CR"]

BAD == [kind |-> "BAD"]

\* Python's None, for optional date keys and target dates
None == <<>>

\* a timestamp text "DD/Mon/YYYY:HH:MM:SS +-HHMM"; shape says whether the
\* text has that shape at all; tz is the signed offset in hours
Timestamp(shape, day, mon, year, hour, tz) ==
    [shape |-> shape, day |-> day, mon |-> mon, year |-> year,
     hour |-> hour, tz |-> tz]

T_Feb28 == Timestamp("ok", 28, "Feb", 2019, 13, 0)

T_Mar01 == Timestamp("ok", 1, "Mar", 2019, 9, 0)

T_Feb28_Late_West == Timestamp("ok", 28, "Feb", 2019, 23, -5)

T_BadMonth == Timestamp("ok", 28, "Foo", 2019, 13, 0)

T_Feb31 == Timestamp("ok", 31, "Feb", 2019, 13, 0)

T_Garbled == Timestamp("garbled", 0, "", 0, 0, 0)

Timestamps ==
    {T_Feb28, T_Mar01, T_Feb28_Late_West, T_BadMonth, T_Feb31, T_Garbled}

Statuses == {199, 200, 299, 300, 500}

\* referers, as sequences of text pieces
Ref_Domain1 == <<"https://", "domain1.com", "/">>

Ref_Domain1_Longer == <<"https://", "domain1.com", ".evil.example/">>

Ref_Domain2 == <<"http://", "domain2.com", "/">>

Referers == {Ref_Domain1, Ref_Domain1_Longer, Ref_Domain2}

\* the text of one log record.  layout "ok": all eight fields in the fixed
\* layout.  layout "unclosed_quote": the closing quote of the request field
\* is missing, so no text that starts with this chunk matches log_pattern.
\* layout "missing_field": the record ends after the user agent.  layout
\* "nonnumeric_status": the status field is not made of digits.
Chunk(layout, ts, status, referer, rt) ==
    [kind |-> "chunk", layout |-> layout, timestamp_str |-> ts,
     status_code |-> status, referer |-> referer, response_time |-> rt]

Malformed == Chunk("unclosed_quote", T_Feb28, 200, Ref_Domain1, "2.75")

MissingField == Chunk("missing_field", T_Feb28, 200, Ref_Domain1, "")

NonNumericStatus ==
    Chunk("nonnumeric_status", T_Feb28, 0, Ref_Domain1, "2.75")

Chunks ==
    {Chunk("ok", ts, st, ref, "2.75") :
        ts \in Timestamps, st \in Statuses, ref \in Referers}
    \cup {Chunk("ok", T_Feb28, 200, ref, "") : ref \in Referers}
    \cup {Malformed, MissingField, NonNumericStatus}

\* the lines an iteration over a text file can yield: one chunk or nothing,
\* then the terminator
Lines == {<<c, LF>> : c \in Chunks} \cup {<<LF>>}

\* ------------------------------------------------------------------------
\* Helpers shared by the analyzers
\* ------------------------------------------------------------------------

Whitespace == {LF, CR}

RECURSIVE lstrip(_)
lstrip(s) ==
    IF s # <<>> /\ Head(s) \in Whitespace THEN lstrip(Tail(s)) ELSE s

RECURSIVE rstrip(_)
rstrip(s) ==
    IF s # <<>> /\ s[Len(s)] \in Whitespace
    THEN rstrip(SubSeq(s, 1, Len(s) - 1))
    ELSE s

\* str.strip()
strip(s) == rstrip(lstrip(s))

\* startswith with the prefix test replaced by equality
startswith_exact(s, prefix) == s = prefix

\* str.startswith(prefix)
startswith(s, prefix) ==
    /\ Len(s) >= Len(prefix)
    /\ SubSeq(s, 1, Len(prefix)) = prefix

\* the literal 'https://domain1.com'
SecurePrefix == <<"https://", "domain1.com">>

\* log_pattern.match with the quoting of the fields not checked
log_pattern_match_any_chunk(text) ==
    IF text # <<>> /\ Head(text).kind = "chunk"
    THEN [matched |-> TRUE, groups |-> Head(text)]
    ELSE [matched |-> FALSE, groups |-> Malformed]

\* log_pattern.match(text): anchored at the start, not at the end, so the
\* first chunk of the text decides; groups are the fields of that chunk
log_pattern_match(text) ==
    IF text # <<>> /\ Head(text).kind = "chunk" /\ Head(text).layout = "ok"
    THEN [matched |-> TRUE, groups |-> Head(text)]
    ELSE [matched |-> FALSE, groups |-> Malformed]

\* the success codes with the upper end included
success_codes_upto_300 == 200 .. 300

\* range(200, 300)
success_codes == 200 .. 299

month_map ==
    [m \in {"Jan", "Feb", "Mar", "Apr", "May", "Jun",
            "Jul", "Aug", "Sep", "Oct", "Nov", "Dec"} |->
        CASE m = "Jan" -> 1 [] m = "Feb" -> 2 [] m = "Mar" -> 3
          [] m = "Apr" -> 4 [] m = "May" -> 5 [] m = "Jun" -> 6
          [] m = "Jul" -> 7 [] m = "Aug" -> 8 [] m = "Sep" -> 9
          [] m = "Oct" -> 10 [] m = "Nov" -> 11 [] m = "Dec" -> 12]

\* defaultdict(lambda: {'total': 0, 'success': 0}).__getitem__: a missing
\* key is inserted with the default value
defaultdict_getitem(d, key) ==
    IF key \in DOMAIN d THEN d
    ELSE (key :> [total |-> 0, success |-> 0]) @@ d

RECURSIVE GCD(_, _)
GCD(a, b) == IF b = 0 THEN a ELSE GCD(b, a % b)

\* a percentage as an exact fraction <<numerator, denominator>> in lowest
\* terms; 0.0 is <<0, 1>>
ZeroRate == <<0, 1>>

\* (success / total) * 100, for total > 0
Percent(success, total) ==
    LET g == GCD(success * 100, total)
    IN  <<(success * 100) \div g, total \div g>>

\* round(rate, 2) of rate = success / total * 100, as a fraction in lowest
\* terms: the nearest hundredth, a tie going to the even one.  (For the
\* totals of the model the float arithmetic of the source gives the same
\* hundredth.)
round(success, total) ==
    LET n == success * 10000
        q == n \div total
        r == n % total
        h == IF 2 * r < total THEN q
             ELSE IF 2 * r > total THEN q + 1
             ELSE IF q % 2 = 0 THEN q ELSE q + 1
        g == GCD(h, 100)
    IN  <<h \div g, 100 \div g>>

\* the characters of format(n, '0<width>d'): at least width decimal digits
RECURSIVE Digits(_, _)
Digits(n, width) ==
    IF n < 10 /\ width <= 1 THEN <<n>>
    ELSE Append(Digits(n \div 10, width - 1), n % 10)

\* the date-key string f"{year}-{month:02d}-{day:02d}" of a key; a digit is
\* its value and '-', which sorts before every digit, is -1
date_key_str(key) ==
    Digits(key[1], 4) \o <<-1>> \o Digits(key[2], 2) \o <<-1>>
        \o Digits(key[3], 2)

\* a < b for two strings
RECURSIVE StrLess(_, _)
StrLess(a, b) ==
    IF b = <<>> THEN FALSE
    ELSE IF a = <<>> THEN TRUE
    ELSE IF Head(a) # Head(b) THEN Head(a) < Head(b)
    ELSE StrLess(Tail(a), Tail(b))

\* order of the date-key strings "YYYY-MM-DD"
DateLess(a, b) == StrLess(date_key_str(a), date_key_str(b))

\* sorted(keys, reverse=True)
RECURSIVE SortedKeys_reversed(_)
SortedKeys_reversed(S) ==
    IF S = {} THEN <<>>
    ELSE LET m == CHOOSE x \in S : \A y \in S \ {x} : DateLess(y, x)
         IN  <<m>> \o SortedKeys_reversed(S \ {m})

\* sorted(keys)
RECURSIVE SortedKeys(_)
SortedKeys(S) ==
    IF S = {} THEN <<>>
    ELSE LET m == CHOOSE x \in S : \A y \in S \ {x} : DateLess(x, y)
         IN  <<m>> \o SortedKeys(S \ {m})

\* ------------------------------------------------------------------------
\* HighPerformanceNginxAnalyzer (src/high_performance_analyzer.py)
\* ------------------------------------------------------------------------

EmptyDict == [k \in {} |-> [total |-> 0, success |-> 0]]

\* reset_stats: the counters of a fresh analyzer
reset_stats ==
    [https_domain1_count |-> 0, daily_stats |-> EmptyDict,
     total_lines_processed |-> 0, valid_lines_processed |-> 0]

\* fast_parse_timestamp that moves the day by the offset
fast_parse_timestamp_offset_applied(timestamp_str) ==
    IF timestamp_str.shape # "ok" THEN None
    ELSE IF timestamp_str.mon \notin DOMAIN month_map THEN None
    ELSE <<timestamp_str.year, month_map[timestamp_str.mon],
           IF timestamp_str.hour - timestamp_str.tz >= 24
           THEN timestamp_str.day + 1
           ELSE IF timestamp_str.hour - timestamp_str.tz < 0
           THEN timestamp_str.day - 1
           ELSE timestamp_str.day>>

\* fast_parse_timestamp: the date as written, the offset is not applied;
\* the date key "YYYY-MM-DD" is the tuple <<year, month, day>>
fast_parse_timestamp(timestamp_str) ==
    IF timestamp_str.shape # "ok" THEN None
    ELSE IF timestamp_str.mon \notin DOMAIN month_map THEN None
    ELSE <<timestamp_str.year, month_map[timestamp_str.mon],
           timestamp_str.day>>

\* the daily counters assigned where the source increments them
hp_count_day_assign(daily_stats, date_key, status) ==
    LET d0 == defaultdict_getitem(daily_stats, date_key)
        d1 == [d0 EXCEPT ![date_key].total = 1]
    IN  IF status \in success_codes
        THEN [d1 EXCEPT ![date_key].success = 1]
        ELSE d1

\* self.daily_stats[date_key]['total'] += 1, and the 'success' increment
\* when the status is a success code
hp_count_day(daily_stats, date_key, status) ==
    LET d0 == defaultdict_getitem(daily_stats, date_key)
        d1 == [d0 EXCEPT ![date_key].total = @ + 1]
    IN  IF status \in success_codes
        THEN [d1 EXCEPT ![date_key].success = @ + 1]
        ELSE d1

\* process_line without the increment of total_lines_processed
process_line_no_total(self, line) ==
    LET match == log_pattern_match(strip(line))
    IN  IF ~match.matched THEN [self |-> self, ret |-> FALSE]
        ELSE
        LET g == match.groups
            s2 == [self EXCEPT !.valid_lines_processed = @ + 1]
            s3 == IF startswith(g.referer, SecurePrefix)
                  THEN [s2 EXCEPT !.https_domain1_count = @ + 1]
                  ELSE s2
            date_key == fast_parse_timestamp(g.timestamp_str)
            s4 == IF date_key # None
                  THEN [s3 EXCEPT !.daily_stats =
                            hp_count_day(@, date_key, g.status_code)]
                  ELSE s3
        IN  [self |-> s4, ret |-> TRUE]

\* process_line that counts a line as valid only once its date is known
process_line_valid_after_date(self, line) ==
    LET s1 == [self EXCEPT !.total_lines_processed = @ + 1]
        match == log_pattern_match(strip(line))
    IN  IF ~match.matched THEN [self |-> s1, ret |-> FALSE]
        ELSE
        LET g == match.groups
            s3 == IF startswith(g.referer, SecurePrefix)
                  THEN [s1 EXCEPT !.https_domain1_count = @ + 1]
                  ELSE s1
            date_key == fast_parse_timestamp(g.timestamp_str)
            s4 == IF date_key # None
                  THEN [s3 EXCEPT !.valid_lines_processed = @ + 1,
                                  !.daily_stats =
                            hp_count_day(@, date_key, g.status_code)]
                  ELSE s3
        IN  [self |-> s4, ret |-> TRUE]

\* process_line: the new counters and the returned bool.  int(status_code)
\* cannot raise for the digits the pattern admits, so the except branch is
\* not reachable for the statuses of the model.
process_line(self, line) ==
    LET s1 == [self EXCEPT !.total_lines_processed = @ + 1]
        match == log_pattern_match(strip(line))
    IN  IF ~match.matched THEN [self |-> s1, ret |-> FALSE]
        ELSE
        LET g == match.groups
            s2 == [s1 EXCEPT !.valid_lines_processed = @ + 1]
            s3 == IF startswith(g.referer, SecurePrefix)
                  THEN [s2 EXCEPT !.https_domain1_count = @ + 1]
                  ELSE s2
            date_key == fast_parse_timestamp(g.timestamp_str)
            s4 == IF date_key # None
                  THEN [s3 EXCEPT !.daily_stats =
                            hp_count_day(@, date_key, g.status_code)]
                  ELSE s3
        IN  [self |-> s4, ret |-> TRUE]

\* one entry of all_dates_stats
hp_date_entry(daily_stats, date) ==
    LET total == daily_stats[date].total
        success == daily_stats[date].success
    IN  [date |-> date, total |-> total, success |-> success,
         success_rate |-> IF total > 0 THEN round(success, total)
                          ELSE ZeroRate]

\* get_results reading daily_stats[target_date] without the membership test
get_results_unguarded(self, target_date) ==
    LET ds == IF target_date # None
              THEN defaultdict_getitem(self.daily_stats, target_date)
              ELSE self.daily_stats
        success_rate ==
            IF target_date # None /\ ds[target_date].total > 0
            THEN Percent(ds[target_date].success, ds[target_date].total)
            ELSE ZeroRate
        keys == SortedKeys(DOMAIN ds)
        all_dates_stats ==
            [i \in 1 .. Len(keys) |-> hp_date_entry(ds, keys[i])]
    IN  [self |-> [self EXCEPT !.daily_stats = ds],
         ret |-> <<self.https_domain1_count, success_rate, all_dates_stats>>]

\* get_results: the returned triple (all_dates_stats as the sequence of its
\* items in insertion order) and the analyzer after the call
get_results(self, target_date) ==
    LET found == target_date # None /\ target_date \in DOMAIN self.daily_stats
        ds == IF found
              THEN defaultdict_getitem(self.daily_stats, target_date)
              ELSE self.daily_stats
        success_rate ==
            IF found /\ ds[target_date].total > 0
            THEN Percent(ds[target_date].success, ds[target_date].total)
            ELSE ZeroRate
        keys == SortedKeys(DOMAIN ds)
        all_dates_stats ==
            [i \in 1 .. Len(keys) |-> hp_date_entry(ds, keys[i])]
    IN  [self |-> [self EXCEPT !.daily_stats = ds],
         ret |-> <<self.https_domain1_count, success_rate, all_dates_stats>>]

\* ------------------------------------------------------------------------
\* datetime.strptime(timestamp_str, '%d/%b/%Y:%H:%M:%S %z') and the UTC date
\* ------------------------------------------------------------------------

\* str.lower() on the month spellings
lower(mon) ==
    CASE mon = "Jan" -> "jan" [] mon = "Feb" -> "feb" [] mon = "Mar" -> "mar"
      [] mon = "Apr" -> "apr" [] mon = "May" -> "may" [] mon = "Jun" -> "jun"
      [] mon = "Jul" -> "jul" [] mon = "Aug" -> "aug" [] mon = "Sep" -> "sep"
      [] mon = "Oct" -> "oct" [] mon = "Nov" -> "nov" [] mon = "Dec" -> "dec"
      [] OTHER -> mon

\* %b: the abbreviated month names, compared case-insensitively
strptime_months ==
    [m \in {"jan", "feb", "mar", "apr", "may", "jun",
            "jul", "aug", "sep", "oct", "nov", "dec"} |->
        CASE m = "jan" -> 1 [] m = "feb" -> 2 [] m = "mar" -> 3
          [] m = "apr" -> 4 [] m = "may" -> 5 [] m = "jun" -> 6
          [] m = "jul" -> 7 [] m = "aug" -> 8 [] m = "sep" -> 9
          [] m = "oct" -> 10 [] m = "nov" -> 11 [] m = "dec" -> 12]

IsLeap(y) == (y % 4 = 0 /\ y % 100 # 0) \/ y % 400 = 0

DaysInMonth(y, m) ==
    IF m = 2 THEN (IF IsLeap(y) THEN 29 ELSE 28)
    ELSE IF m \in {4, 6, 9, 11} THEN 30 ELSE 31

\* strptime: ok = FALSE stands for the ValueError; otherwise the aware
\* datetime (date, hour and offset in hours)
strptime(timestamp_str) ==
    LET bad == [ok |-> FALSE, year |-> 0, month |-> 0, day |-> 0,
                hour |-> 0, tz |-> 0]
    IN  IF timestamp_str.shape # "ok" THEN bad
        ELSE IF lower(timestamp_str.mon) \notin DOMAIN strptime_months THEN bad
        ELSE
        LET month == strptime_months[lower(timestamp_str.mon)]
        IN  IF \/ timestamp_str.day < 1
               \/ timestamp_str.day > DaysInMonth(timestamp_str.year, month)
               \/ timestamp_str.hour > 23
               \/ timestamp_str.tz <= -24
               \/ timestamp_str.tz >= 24
            THEN bad
            ELSE [ok |-> TRUE, year |-> timestamp_str.year, month |-> month,
                  day |-> timestamp_str.day, hour |-> timestamp_str.hour,
                  tz |-> timestamp_str.tz]

PrevDay(y, m, d) ==
    IF d > 1 THEN <<y, m, d - 1>>
    ELSE IF m > 1 THEN <<y, m - 1, DaysInMonth(y, m - 1)>>
    ELSE <<y - 1, 12, 31>>

NextDay(y, m, d) ==
    IF d < DaysInMonth(y, m) THEN <<y, m, d + 1>>
    ELSE IF m < 12 THEN <<y, m + 1, 1>>
    ELSE <<y + 1, 1, 1>>

\* timestamp.utctimetuple() formatted as "YYYY-MM-DD": the offset is
\* subtracted, which can move the date by one day
get_date_key(timestamp) ==
    LET h == timestamp.hour - timestamp.tz
    IN  IF h < 0 THEN PrevDay(timestamp.year, timestamp.month, timestamp.day)
        ELSE IF h >= 24
        THEN NextDay(timestamp.year, timestamp.month, timestamp.day)
        ELSE <<timestamp.year, timestamp.month, timestamp.day>>

\* float(response_time) succeeds
float_ok(response_time) == response_time \in {"2.75"}

\* ------------------------------------------------------------------------
\* NginxLogAnalyzer (src/nginx_log_analyzer.py)
\* ------------------------------------------------------------------------

\* the counters set by __init__
nla_init == [https_domain1_count |-> 0, daily_stats |-> EmptyDict]

\* a handler that lets ValueError through
parse_caught_index_only == {"IndexError"}

\* except (ValueError, IndexError) of parse_log_line
parse_caught == {"ValueError", "IndexError"}

\* parse_log_line: ok = FALSE stands for the returned None, raised = TRUE
\* for an exception that leaves the method.  Inside the try statement
\* strptime and float raise ValueError for a text they do not accept.
parse_log_line(line) ==
    LET match == log_pattern_match(strip(line))
        g == match.groups
        timestamp == strptime(g.timestamp_str)
        none == [ok |-> FALSE, raised |-> FALSE, timestamp |-> timestamp,
                 status_code |-> 0, referer |-> <<>>]
        exc == IF ~timestamp.ok THEN "ValueError"
               ELSE IF g.response_time # "-" /\ ~float_ok(g.response_time)
               THEN "ValueError"
               ELSE "none"
    IN  IF ~match.matched THEN none
        ELSE IF exc # "none"
        THEN (IF exc \in parse_caught THEN none
              ELSE [none EXCEPT !.raised = TRUE])
        ELSE [ok |-> TRUE, raised |-> FALSE, timestamp |-> timestamp,
              status_code |-> g.status_code, referer |-> g.referer]

is_https_domain1_request(log_entry) ==
    startswith(log_entry.referer, SecurePrefix)

is_success_status(status_code) == status_code \in 200 .. 299

\* the body of the loop of _process_batch, for one line
nla_process_entry(self, line) ==
    LET log_entry == parse_log_line(line)
    IN  IF ~log_entry.ok THEN [self |-> self, counted |-> 0]
        ELSE
        LET s1 == IF is_https_domain1_request(log_entry)
                  THEN [self EXCEPT !.https_domain1_count = @ + 1]
                  ELSE self
            date_key == get_date_key(log_entry.timestamp)
            d0 == defaultdict_getitem(s1.daily_stats, date_key)
            d1 == [d0 EXCEPT ![date_key].total = @ + 1]
            d2 == IF is_success_status(log_entry.status_code)
                  THEN [d1 EXCEPT ![date_key].success = @ + 1]
                  ELSE d1
        IN  [self |-> [s1 EXCEPT !.daily_stats = d2], counted |-> 1]

\* _process_batch: the counters after the batch and processed_count
RECURSIVE nla_process_batch(_, _)
nla_process_batch(self, lines) ==
    IF lines = <<>> THEN [self |-> self, ret |-> 0]
    ELSE LET r == nla_process_entry(self, Head(lines))
             rest == nla_process_batch(r.self, Tail(lines))
         IN  [self |-> rest.self, ret |-> r.counted + rest.ret]

\* get_daily_success_rate without the early return for a missing date
get_daily_success_rate_unguarded(self, date) ==
    LET ds == defaultdict_getitem(self.daily_stats, date)
        total == ds[date].total
        success == ds[date].success
        success_rate == IF total > 0 THEN Percent(success, total)
                        ELSE ZeroRate
    IN  [self |-> [self EXCEPT !.daily_stats = ds],
         ret |-> <<success_rate, success, total>>]

\* get_daily_success_rate: (rate, success, total) and the analyzer after
\* the call
get_daily_success_rate(self, date) ==
    IF date \notin DOMAIN self.daily_stats
    THEN [self |-> self, ret |-> <<ZeroRate, 0, 0>>]
    ELSE
    LET ds == defaultdict_getitem(self.daily_stats, date)
        total == ds[date].total
        success == ds[date].success
        success_rate == IF total > 0 THEN Percent(success, total)
                        ELSE ZeroRate
    IN  [self |-> [self EXCEPT !.daily_stats = ds],
         ret |-> <<success_rate, success, total>>]

\* get_all_dates_summary: the items of the summary in insertion order
get_all_dates_summary(self) ==
    LET keys == SortedKeys(DOMAIN self.daily_stats)
    IN  [i \in 1 .. Len(keys) |-> hp_date_entry(self.daily_stats, keys[i])]

\* ------------------------------------------------------------------------
\* analyze_nginx_logs and quick_analysis (src/simple_nginx_analyzer.py)
\* ------------------------------------------------------------------------

\* the local variables of analyze_nginx_logs when the loop starts
sna_init ==
    [https_domain1_count |-> 0, daily_stats |-> EmptyDict, line_count |-> 0]

\* the body of the loop over the file, for one line
sna_line(loc, line) ==
    LET l1 == [loc EXCEPT !.line_count = @ + 1]
        match == log_pattern_match(strip(line))
        g == match.groups
    IN  IF ~match.matched THEN l1
        ELSE
        LET l2 == IF startswith(g.referer, SecurePrefix)
                  THEN [l1 EXCEPT !.https_domain1_count = @ + 1]
                  ELSE l1
            timestamp == strptime(g.timestamp_str)
        IN  IF ~timestamp.ok THEN l2
            ELSE
            LET date_key == get_date_key(timestamp)
                d0 == defaultdict_getitem(l2.daily_stats, date_key)
                d1 == [d0 EXCEPT ![date_key].total = @ + 1]
                d2 == IF g.status_code \in 200 .. 299
                      THEN [d1 EXCEPT ![date_key].success = @ + 1]
                      ELSE d1
            IN  [l2 EXCEPT !.daily_stats = d2]

\* the end of analyze_nginx_logs after the loop: the returned pair and
\* whether the 'no records for this date' warning is printed
sna_return(loc, target_date) ==
    LET found == target_date # None /\ target_date \in DOMAIN loc.daily_stats
        success_rate ==
            IF found /\ loc.daily_stats[target_date].total > 0
            THEN Percent(loc.daily_stats[target_date].success,
                         loc.daily_stats[target_date].total)
            ELSE ZeroRate
    IN  [ret |-> <<loc.https_domain1_count, success_rate>>,
         warned |-> ~found /\ target_date # None]

\* quick_analysis, for a given date: TRUE when it prints the success rate,
\* FALSE when it prints that no data was found for the date
quick_analysis_shows_rate(ret) == ret[2][1] > 0

\* ------------------------------------------------------------------------
\* Club membership (src/chess_tournament_service.py)
\* ------------------------------------------------------------------------

\* the tables right after create_tables(): no rows; members, tournaments,
\* matches and player_rankings in the order of insertion, players by
\* player_id, tournament_participants and tournament_standings as sets
EmptyDb ==
    [members |-> <<>>, tournaments |-> <<>>, matches |-> <<>>,
     participants |-> {}, standings |-> {}, players |-> <<>>,
     rankings |-> <<>>]

\* MockChessTournamentService.__init__: the store of the API process
mock_init == [tournaments |-> <<>>, next_id |-> 1]

\* player_id and club_id values
Players == {1, 2}

Clubs == {1, 2}

\* Member(...): a row of the members table; membership_id is the
\* autoincrement primary key
Member(membership_id, player_id, club_id, status) ==
    [membership_id |-> membership_id, player_id |-> player_id,
     club_id |-> club_id, status |-> status]

\* the rows session.query(Member).filter(and_(Member.player_id ==
\* player_id, Member.status == ACTIVE)) selects, by index
ActiveMemberships(d, player_id) ==
    {i \in 1 .. Len(d.members) :
        /\ d.members[i].player_id = player_id
        /\ d.members[i].status = "ACTIVE"}

\* .first() of that query: 0 stands for None; the query has no ORDER BY,
\* so any selected row can be the first
FirstActive(d, player_id) ==
    IF ActiveMemberships(d, player_id) = {} THEN {0}
    ELSE ActiveMemberships(d, player_id)

\* how a call of the service ends: it returns a row, named by its id, or
\* raises
Returned(id) == [exception |-> "none", id |-> id]

Raised(exception) == [exception |-> exception, id |-> 0]

\* add_member_to_club without the test for an active membership
add_member_to_club_unchecked(d, player_id, club_id, existing_active) ==
    LET member == Member(Len(d.members) + 1, player_id, club_id, "ACTIVE")
    IN  [db |-> [d EXCEPT !.members = Append(@, member)],
         ret |-> Returned(member.membership_id)]

\* add_member_to_club: the tables after the call and how it ended;
\* existing_active is the result of .first()
add_member_to_club(d, player_id, club_id, existing_active) ==
    IF existing_active # 0 THEN [db |-> d, ret |-> Raised("ValueError")]
    ELSE
    LET member == Member(Len(d.members) + 1, player_id, club_id, "ACTIVE")
    IN  [db |-> [d EXCEPT !.members = Append(@, member)],
         ret |-> Returned(member.membership_id)]

\* transfer_member: the tables after the call and how it ended;
\* current_membership is the result of .first()
transfer_member(d, player_id, new_club_id, current_membership) ==
    LET d1 == IF current_membership # 0
              THEN [d EXCEPT !.members[current_membership].status =
                                "INACTIVE"]
              ELSE d
        new_member ==
            Member(Len(d.members) + 1, player_id, new_club_id, "ACTIVE")
    IN  [db |-> [d1 EXCEPT !.members = Append(@, new_member)],
         ret |-> Returned(new_member.membership_id)]

\* ------------------------------------------------------------------------
\* State
\* ------------------------------------------------------------------------

VARIABLES
    variant,    \* which analyzer this run uses: "hp", "nla" or "sna"
    hp,         \* the counters of the HighPerformanceNginxAnalyzer instance
    nla,        \* the counters of the NginxLogAnalyzer instance
    sna,        \* the local variables of the running analyze_nginx_logs
    nlines,     \* number of lines fed so far
    last,       \* the last operation: its name, arguments and return value
    file_exists,    \* whether file_path names an existing file
    file_bytes,     \* the content of the file, a sequence of tokens
    batch_size,     \* the batch_size argument of process_file_streaming
    pc,             \* position in the two runs over the file
    reader,         \* what the open file has not yet yielded
    batch_lines,    \* the local batch_lines of process_file_streaming
    analyzers,      \* the fresh analyzer of each strategy
    outcome,        \* how each run ended
    db,             \* the rows of the tables of the chess database
    mock,           \* the MockChessTournamentService instance of the API
    sessions,       \* the service calls in progress, one session each
    today           \* date.today(), as a day number

analyzer_vars == <<variant, hp, nla, sna, nlines, last>>

file_vars ==
    <<file_exists, file_bytes, batch_size, pc, reader, batch_lines,
      analyzers, outcome>>

chess_vars == <<db, mock, sessions, today>>

vars == <<analyzer_vars, file_vars, chess_vars>>

\* the date keys a caller can ask for: dates with and without records
TargetDates == {<<2019, 2, 28>>, <<2019, 3, 1>>, <<2019, 2, 31>>, <<2019, 3, 2>>}

\* lines for the batches of more than one line
BatchLines ==
    {<<Chunk("ok", T_Feb28, 200, Ref_Domain1, "2.75"), LF>>,
     <<Chunk("ok", T_Mar01, 500, Ref_Domain2, "2.75"), LF>>,
     <<Chunk("ok", T_BadMonth, 200, Ref_Domain1, "2.75"), LF>>,
     <<Malformed, LF>>}

\* the batches handed to NginxLogAnalyzer._process_batch
Batches ==
    {<<l>> : l \in Lines} \cup {<<l1, l2>> : l1 \in BatchLines, l2 \in BatchLines}

Op(op, arg, target_date, ret) ==
    [op |-> op, arg |-> arg, target_date |-> target_date, ret |-> ret]

Init ==
    /\ variant \in {"hp", "nla", "sna"}
    /\ hp = reset_stats
    /\ nla = nla_init
    /\ sna = sna_init
    /\ nlines = 0
    /\ last = Op("init", <<>>, None, <<>>)
    /\ file_exists = FALSE
    /\ file_bytes = <<>>
    /\ batch_size = 1
    /\ pc = "no_file"
    /\ reader = <<>>
    /\ batch_lines = <<>>
    /\ analyzers = [streaming |-> reset_stats, mmap |-> reset_stats]
    /\ outcome = [streaming |-> "not_run", mmap |-> "not_run"]
    /\ db = EmptyDb
    /\ mock = mock_init
    /\ sessions = <<>>
    /\ today = 1

\* ------------------------------------------------------------------------
\* Operations of Spec
\* ------------------------------------------------------------------------

\* analyzer.process_line(line)
ProcessLine(line) ==
    /\ variant = "hp"
    /\ nlines < MaxLines
    /\ hp' = process_line(hp, line).self
    /\ nlines' = nlines + 1
    /\ last' = Op("process_line", line, None, <<process_line(hp, line).ret>>)
    /\ UNCHANGED <<variant, nla, sna>>
    /\ UNCHANGED file_vars
    /\ UNCHANGED chess_vars

\* analyzer.get_results(target_date)
GetResults(target_date) ==
    /\ variant = "hp"
    /\ hp' = get_results(hp, target_date).self
    /\ last' = Op("get_results", <<>>, target_date,
                  get_results(hp, target_date).ret)
    /\ UNCHANGED <<variant, nla, sna, nlines>>
    /\ UNCHANGED file_vars
    /\ UNCHANGED chess_vars

\* analyzer._process_batch(lines)
ProcessBatch(lines) ==
    /\ variant = "nla"
    /\ nlines + Len(lines) <= MaxLines
    /\ nla' = nla_process_batch(nla, lines).self
    /\ nlines' = nlines + Len(lines)
    /\ last' = Op("_process_batch", lines, None,
                  <<nla_process_batch(nla, lines).ret>>)
    /\ UNCHANGED <<variant, hp, sna>>
    /\ UNCHANGED file_vars
    /\ UNCHANGED chess_vars

\* analyzer.parse_log_line(line): "entry" for the returned dict, "None"
\* for None, "raised" for an exception
ParseLogLine(line) ==
    /\ variant = "nla"
    /\ LET log_entry == parse_log_line(line)
       IN  last' = Op("parse_log_line", line, None,
                      <<IF log_entry.raised THEN "raised"
                        ELSE IF log_entry.ok THEN "entry" ELSE "None">>)
    /\ UNCHANGED <<variant, hp, nla, sna, nlines>>
    /\ UNCHANGED file_vars
    /\ UNCHANGED <<mock, sessions, today>>
    /\ UNCHANGED chess_vars

\* analyzer.get_daily_success_rate(date)
GetDailySuccessRate(date) ==
    /\ variant = "nla"
    /\ nla' = get_daily_success_rate(nla, date).self
    /\ last' = Op("get_daily_success_rate", <<>>, date,
                  get_daily_success_rate(nla, date).ret)
    /\ UNCHANGED <<variant, hp, sna, nlines>>
    /\ UNCHANGED file_vars
    /\ UNCHANGED chess_vars

\* analyzer.get_all_dates_summary()
GetAllDatesSummary ==
    /\ variant = "nla"
    /\ last' = Op("get_all_dates_summary", <<>>, None,
                  get_all_dates_summary(nla))
    /\ UNCHANGED <<variant, hp, nla, sna, nlines>>
    /\ UNCHANGED file_vars
    /\ UNCHANGED <<mock, sessions, today>>
    /\ UNCHANGED chess_vars

\* one iteration of the loop of analyze_nginx_logs
AnalyzeLine(line) ==
    /\ variant = "sna"
    /\ last.op # "analyze_nginx_logs"
    /\ nlines < MaxLines
    /\ sna' = sna_line(sna, line)
    /\ nlines' = nlines + 1
    /\ last' = Op("analyze_line", line, None, <<>>)
    /\ UNCHANGED <<variant, hp, nla>>
    /\ UNCHANGED file_vars
    /\ UNCHANGED chess_vars

\* the end of the file: analyze_nginx_logs(path, target_date) returns
AnalyzeReturn(target_date) ==
    /\ variant = "sna"
    /\ last.op # "analyze_nginx_logs"
    /\ last' = Op("analyze_nginx_logs", <<>>, target_date,
                  sna_return(sna, target_date).ret)
    /\ UNCHANGED <<variant, hp, nla, sna, nlines>>
    /\ UNCHANGED file_vars
    /\ UNCHANGED <<mock, sessions, today>>
    /\ UNCHANGED chess_vars

Next ==
    \/ \E line \in Lines : ProcessLine(line)
    \/ \E d \in TargetDates \cup {None} : GetResults(d)
    \/ \E lines \in Batches : ProcessBatch(lines)
    \/ \E line \in Lines : ParseLogLine(line)
    \/ \E d \in TargetDates : GetDailySuccessRate(d)
    \/ GetAllDatesSummary
    \/ \E line \in Lines : AnalyzeLine(line)
    \/ \E d \in TargetDates \cup {None} : AnalyzeReturn(d)

Spec == Init /\ [][Next]_vars

\* ------------------------------------------------------------------------
\* Claims checked under Spec
\* ------------------------------------------------------------------------

QueryOps == {"get_results", "get_daily_success_rate", "get_all_dates_summary"}

\* the first chunk of a line handed to process_line has the fixed layout
LayoutOk(line) ==
    /\ line # <<>>
    /\ line[1].kind = "chunk"
    /\ line[1].layout = "ok"

\* the referers of the model that begin with 'https://domain1.com'
PrefixedReferers == {Ref_Domain1, Ref_Domain1_Longer}

\* d[key] with the counters of a missing key read as zero
CountOf(d, key) ==
    IF key \in DOMAIN d THEN d[key] ELSE [total |-> 0, success |-> 0]

\* a dict without the entry of key
Without(d, key) == [k \in DOMAIN d \ {key} |-> d[k]]

\* C3: in every reachable state of HighPerformanceNginxAnalyzer,
\* valid_lines_processed <= total_lines_processed
C3_ValidLeqTotal == hp.valid_lines_processed <= hp.total_lines_processed

\* a run in which some lines were valid and some were not
C3_Witness ==
    /\ last.op = "process_line"
    /\ hp.valid_lines_processed = 1
    /\ hp.total_lines_processed = 3

\* C4: every date key present in daily_stats has 0 <= success <= total and
\* total > 0, after any sequence of line updates and queries
C4_DailyCounters ==
    \A d \in DOMAIN hp.daily_stats :
        /\ 0 <= hp.daily_stats[d].success
        /\ hp.daily_stats[d].success <= hp.daily_stats[d].total
        /\ hp.daily_stats[d].total > 0

\* a query for a date without records, made after records of other dates
C4_Witness ==
    /\ last.op = "get_results"
    /\ last.target_date # None
    /\ last.target_date \notin DOMAIN hp.daily_stats
    /\ \E d \in DOMAIN hp.daily_stats :
          hp.daily_stats[d].success < hp.daily_stats[d].total

\* C5: for a line that matches the layout, process_line adds exactly 1 to
\* https_domain1_count when the referer begins with 'https://domain1.com'
\* and 0 otherwise, whatever the status code is
C5_SecureReferer ==
    [][(last'.op = "process_line" /\ LayoutOk(last'.arg)) =>
          hp'.https_domain1_count = hp.https_domain1_count +
              (IF last'.arg[1].referer \in PrefixedReferers THEN 1 ELSE 0)]_vars

\* a status 500 line with the referer https://domain1.com/ was counted
C5_Witness ==
    /\ last.op = "process_line"
    /\ LayoutOk(last.arg)
    /\ last.arg[1].status_code = 500
    /\ last.arg[1].referer = Ref_Domain1
    /\ hp.https_domain1_count = 2

\* C6: for a layout-matching line whose timestamp normalizes to date d,
\* process_line adds exactly 1 to daily_stats[d].total, adds 1 to
\* daily_stats[d].success iff 200 <= status < 300, and leaves the counters
\* of every other date unchanged
C6_DailyUpdate ==
    [][(/\ last'.op = "process_line"
        /\ LayoutOk(last'.arg)
        /\ fast_parse_timestamp(last'.arg[1].timestamp_str) # None) =>
          LET d == fast_parse_timestamp(last'.arg[1].timestamp_str)
              status == last'.arg[1].status_code
              before == CountOf(hp.daily_stats, d)
          IN  /\ DOMAIN hp'.daily_stats = DOMAIN hp.daily_stats \cup {d}
              /\ hp'.daily_stats[d].total = before.total + 1
              /\ hp'.daily_stats[d].success = before.success +
                    (IF 200 <= status /\ status < 300 THEN 1 ELSE 0)
              /\ \A e \in DOMAIN hp.daily_stats \ {d} :
                    hp'.daily_stats[e] = hp.daily_stats[e]]_vars

\* a status 300 line was counted on a date that already had a success,
\* next to another date
C6_Witness ==
    /\ last.op = "process_line"
    /\ LayoutOk(last.arg)
    /\ last.arg[1].status_code = 300
    /\ fast_parse_timestamp(last.arg[1].timestamp_str) = <<2019, 2, 28>>
    /\ hp.daily_stats = (<<2019, 2, 28>> :> [total |-> 2, success |-> 1])
                        @@ (<<2019, 3, 1>> :> [total |-> 1, success |-> 0])

\* C7: for a malformed line, process_line adds 1 to total_lines_processed
\* and leaves valid_lines_processed, https_domain1_count and daily_stats
\* unchanged
C7_MalformedLine ==
    [][(last'.op = "process_line" /\ ~LayoutOk(last'.arg)) =>
          /\ hp'.total_lines_processed = hp.total_lines_processed + 1
          /\ hp'.valid_lines_processed = hp.valid_lines_processed
          /\ hp'.https_domain1_count = hp.https_domain1_count
          /\ hp'.daily_stats = hp.daily_stats
          /\ last'.ret = <<FALSE>>]_vars

\* the line with the missing closing quote was processed after valid lines
C7_Witness ==
    /\ last.op = "process_line"
    /\ last.arg = <<Malformed, LF>>
    /\ hp.total_lines_processed = 3
    /\ hp.valid_lines_processed = 2
    /\ hp.https_domain1_count >= 1

\* C8: in each analyzer variant, a layout-matching record whose timestamp
\* fails to normalize still adds 1 to the secure-referer counter when its
\* referer has the prefix, and changes no daily counter
C8_TimestampFailure ==
    [][/\ (/\ last'.op = "process_line"
           /\ LayoutOk(last'.arg)
           /\ fast_parse_timestamp(last'.arg[1].timestamp_str) = None) =>
             /\ hp'.https_domain1_count = hp.https_domain1_count +
                  (IF last'.arg[1].referer \in PrefixedReferers
                   THEN 1 ELSE 0)
             /\ hp'.daily_stats = hp.daily_stats
       /\ (/\ last'.op = "_process_batch"
           /\ Len(last'.arg) = 1
           /\ LayoutOk(last'.arg[1])
           /\ ~strptime(last'.arg[1][1].timestamp_str).ok) =>
             /\ nla'.https_domain1_count = nla.https_domain1_count +
                  (IF last'.arg[1][1].referer \in PrefixedReferers
                   THEN 1 ELSE 0)
             /\ nla'.daily_stats = nla.daily_stats
       /\ (/\ last'.op = "analyze_line"
           /\ LayoutOk(last'.arg)
           /\ ~strptime(last'.arg[1].timestamp_str).ok) =>
             /\ sna'.https_domain1_count = sna.https_domain1_count +
                  (IF last'.arg[1].referer \in PrefixedReferers
                   THEN 1 ELSE 0)
             /\ sna'.daily_stats = sna.daily_stats]_vars

\* C9: the query operations leave every counter and the set of date keys
\* unchanged, for any requested date, between any two line updates
C9_QueriesPure ==
    [][last'.op \in QueryOps => (hp' = hp /\ nla' = nla)]_vars

\* a query for a date without records, made between two line updates
C9_Witness ==
    /\ last.op = "get_daily_success_rate"
    /\ nla.daily_stats # EmptyDict
    /\ last.target_date \notin DOMAIN nla.daily_stats
    /\ nlines >= 1
    /\ nlines < MaxLines

\* C10: the result of the daily success-rate query for a date that has
\* records differs from the result for a date without records (same other
\* counters), also when no record of the date was successful; for
\* get_results, get_daily_success_rate and analyze_nginx_logs
C10_Distinguishes ==
    /\ (/\ last.op = "get_results"
        /\ last.target_date \in DOMAIN hp.daily_stats) =>
          last.ret # get_results(
              [hp EXCEPT !.daily_stats = Without(@, last.target_date)],
              last.target_date).ret
    /\ (/\ last.op = "get_daily_success_rate"
        /\ last.target_date \in DOMAIN nla.daily_stats) =>
          last.ret # get_daily_success_rate(
              [nla EXCEPT !.daily_stats = Without(@, last.target_date)],
              last.target_date).ret
    /\ (/\ last.op = "analyze_nginx_logs"
        /\ last.target_date \in DOMAIN sna.daily_stats) =>
          /\ last.ret # sna_return(
                [sna EXCEPT !.daily_stats = Without(@, last.target_date)],
                last.target_date).ret
          /\ quick_analysis_shows_rate(last.ret)

\* a is an earlier calendar day than b
CalendarBefore(a, b) ==
    \/ a[1] < b[1]
    \/ a[1] = b[1] /\ a[2] < b[2]
    \/ a[1] = b[1] /\ a[2] = b[2] /\ a[3] < b[3]

\* the absolute value
Abs(x) == IF x < 0 THEN -x ELSE x

\* the all-dates list in a returned value, and the counters it was made of
AllDates == IF last.op = "get_results" THEN last.ret[3] ELSE last.ret

AllDatesSource ==
    IF last.op = "get_results" THEN hp.daily_stats ELSE nla.daily_stats

\* C18: the all-dates result (third component of get_results,
\* get_all_dates_summary) lists the date keys of the daily counters in
\* ascending calendar order, each with its total and success and with
\* rate = success / total * 100 rounded to two decimals.
C18_AllDatesSorted ==
    last.op \in {"get_results", "get_all_dates_summary"} =>
        /\ {AllDates[i].date : i \in 1 .. Len(AllDates)}
                = DOMAIN AllDatesSource
        /\ \A i \in 1 .. Len(AllDates) : \A j \in 1 .. Len(AllDates) :
                i < j => CalendarBefore(AllDates[i].date, AllDates[j].date)
        /\ \A i \in 1 .. Len(AllDates) :
                LET e == AllDates[i]
                    n == e.success_rate[1]
                    d == e.success_rate[2]
                IN  /\ e.total = AllDatesSource[e.date].total
                    /\ e.success = AllDatesSource[e.date].success
                    /\ e.total > 0
                    /\ 100 % d = 0
                    /\ 200 * Abs(n * e.total - 100 * e.success * d)
                            <= d * e.total

\* get_results listed two dates, one of them with half of its requests
\* successful
C18_Witness ==
    /\ last.op = "get_results"
    /\ Len(last.ret[3]) = 2
    /\ last.ret[3][1].date = <<2019, 2, 28>>
    /\ last.ret[3][2].date = <<2019, 3, 1>>
    /\ last.ret[3][2].total = 2
    /\ last.ret[3][2].success = 1
    /\ last.ret[3][2].success_rate = <<50, 1>>

\* C16: for every input line the parser step (process_line,
\* parse_log_line) returns normally, with its success or its failure
\* value, and never raises; a line that deviates from the layout (missing
\* field, malformed quoting, non-numeric status) gets the failure value.
C16_ParserTotal ==
    /\ last.op = "process_line" =>
            /\ last.ret \in {<<TRUE>>, <<FALSE>>}
            /\ ~LayoutOk(last.arg) => last.ret = <<FALSE>>
    /\ last.op = "parse_log_line" =>
            /\ last.ret \in {<<"entry">>, <<"None">>}
            /\ ~LayoutOk(last.arg) => last.ret = <<"None">>

\* parse_log_line returned None for a line whose day does not exist, which
\* strptime refuses with ValueError, after a line was counted
C16_Witness ==
    /\ last.op = "parse_log_line"
    /\ LayoutOk(last.arg)
    /\ last.arg[1].timestamp_str = T_Feb31
    /\ last.ret = <<"None">>
    /\ nlines >= 1

\* ------------------------------------------------------------------------
\* Reading a file: process_file_streaming and process_file_mmap
\* ------------------------------------------------------------------------

\* bytes.decode('utf-8', errors='ignore'), also the decoding done by
\* open(..., encoding='utf-8', errors='ignore'): undecodable bytes vanish
RECURSIVE decode(_)
decode(bytes) ==
    IF bytes = <<>> THEN <<>>
    ELSE IF Head(bytes) = BAD THEN decode(Tail(bytes))
    ELSE <<Head(bytes)>> \o decode(Tail(bytes))

\* the lines an iteration over a file opened in text mode yields: with the
\* default newline=None a line ends at '\n', '\r' or '\r\n', and the
\* terminator is handed over as '\n'; cur is the line being collected
RECURSIVE text_lines(_, _)
text_lines(text, cur) ==
    IF text = <<>> THEN (IF cur = <<>> THEN <<>> ELSE <<cur>>)
    ELSE IF Head(text) = CR /\ Len(text) >= 2 /\ text[2] = LF
    THEN <<cur \o <<LF>>>> \o text_lines(Tail(Tail(text)), <<>>)
    ELSE IF Head(text) \in {CR, LF}
    THEN <<cur \o <<LF>>>> \o text_lines(Tail(text), <<>>)
    ELSE text_lines(Tail(text), cur \o <<Head(text)>>)

\* mmap.readline(): the bytes up to and including the next b'\n', or all
\* the remaining bytes
RECURSIVE readline(_)
readline(bytes) ==
    IF bytes = <<>> THEN <<>>
    ELSE IF Head(bytes) = LF THEN <<LF>>
    ELSE <<Head(bytes)>> \o readline(Tail(bytes))

\* _process_batch that passes over the first line of a batch of several
hp_process_batch_skips_first(self, lines) ==
    IF Len(lines) >= 2 THEN process_line(self, lines[2]).self
    ELSE IF lines = <<>> THEN self
    ELSE process_line(self, Head(lines)).self

\* HighPerformanceNginxAnalyzer._process_batch: process_line on each line
RECURSIVE hp_process_batch(_, _)
hp_process_batch(self, lines) ==
    IF lines = <<>> THEN self
    ELSE hp_process_batch(process_line(self, Head(lines)).self, Tail(lines))

\* what a file can be made of
FileTokens ==
    {LF, CR, BAD, Malformed,
     Chunk("ok", T_Feb28, 200, Ref_Domain1, "2.75"),
     Chunk("ok", T_Mar01, 500, Ref_Domain2, "2.75")}

RECURSIVE SeqsUpTo(_, _)
SeqsUpTo(S, n) ==
    IF n = 0 THEN {<<>>}
    ELSE LET shorter == SeqsUpTo(S, n - 1)
         IN  shorter \cup {Append(q, x) : q \in shorter, x \in S}

InitFile ==
    /\ variant = "hp"
    /\ hp = reset_stats
    /\ nla = nla_init
    /\ sna = sna_init
    /\ nlines = 0
    /\ last = Op("init", <<>>, None, <<>>)
    /\ file_exists \in BOOLEAN
    /\ file_bytes \in SeqsUpTo(FileTokens, MaxFileLen)
    /\ ~file_exists => file_bytes = <<>>
    /\ batch_size \in 1 .. MaxBatch
    /\ pc = "streaming_call"
    /\ reader = <<>>
    /\ batch_lines = <<>>
    /\ analyzers = [streaming |-> reset_stats, mmap |-> reset_stats]
    /\ outcome = [streaming |-> "not_run", mmap |-> "not_run"]
    /\ db = EmptyDb
    /\ mock = mock_init
    /\ sessions = <<>>
    /\ today = 1

\* process_file_streaming up to the start of the loop.  os.path.getsize is
\* called before the try statement, so its FileNotFoundError reaches the
\* caller ("raised").
StreamingCall ==
    /\ pc = "streaming_call"
    /\ IF ~file_exists
       THEN /\ outcome' = [outcome EXCEPT !.streaming = "raised"]
            /\ pc' = "mmap_call"
            /\ UNCHANGED reader
       ELSE /\ reader' = text_lines(decode(file_bytes), <<>>)
            /\ pc' = "streaming_loop"
            /\ UNCHANGED outcome
    /\ batch_lines' = <<>>
    /\ UNCHANGED <<file_exists, file_bytes, batch_size, analyzers>>
    /\ UNCHANGED analyzer_vars
    /\ UNCHANGED chess_vars

\* one iteration of 'for line in file', with the flush of a full batch
StreamingReadLine ==
    /\ pc = "streaming_loop"
    /\ reader # <<>>
    /\ reader' = Tail(reader)
    /\ LET batch == Append(batch_lines, Head(reader))
       IN  IF Len(batch) >= batch_size
           THEN /\ analyzers' = [analyzers EXCEPT !.streaming =
                                    hp_process_batch(@, batch)]
                /\ batch_lines' = <<>>
           ELSE /\ batch_lines' = batch
                /\ UNCHANGED analyzers
    /\ UNCHANGED <<file_exists, file_bytes, batch_size, pc, outcome>>
    /\ UNCHANGED analyzer_vars
    /\ UNCHANGED chess_vars

\* the end of the file without the flush of the remaining lines
StreamingEnd_without_flush ==
    /\ pc = "streaming_loop"
    /\ reader = <<>>
    /\ batch_lines' = <<>>
    /\ outcome' = [outcome EXCEPT !.streaming = "completed"]
    /\ pc' = "mmap_call"
    /\ UNCHANGED <<file_exists, file_bytes, batch_size, reader, analyzers>>
    /\ UNCHANGED analyzer_vars
    /\ UNCHANGED chess_vars

\* the end of the file: the remaining lines are processed and the run
\* completes
StreamingEnd ==
    /\ pc = "streaming_loop"
    /\ reader = <<>>
    /\ analyzers' = [analyzers EXCEPT !.streaming =
                        hp_process_batch(@, batch_lines)]
    /\ batch_lines' = <<>>
    /\ outcome' = [outcome EXCEPT !.streaming = "completed"]
    /\ pc' = "mmap_call"
    /\ UNCHANGED <<file_exists, file_bytes, batch_size, reader>>
    /\ UNCHANGED analyzer_vars
    /\ UNCHANGED chess_vars

\* process_file_mmap up to the start of the loop.  open() of a missing file
\* and mmap.mmap() of an empty file raise inside the try statement, whose
\* only handler is 'except Exception' ("io_error").
MmapCall ==
    /\ pc = "mmap_call"
    /\ IF ~file_exists \/ file_bytes = <<>>
       THEN /\ outcome' = [outcome EXCEPT !.mmap = "io_error"]
            /\ pc' = "done"
            /\ UNCHANGED reader
       ELSE /\ reader' = file_bytes
            /\ pc' = "mmap_loop"
            /\ UNCHANGED outcome
    /\ UNCHANGED <<file_exists, file_bytes, batch_size, batch_lines,
                   analyzers>>
    /\ UNCHANGED analyzer_vars
    /\ UNCHANGED chess_vars

\* one iteration of 'for line_bytes in iter(mmapped_file.readline, b"")'
MmapReadLine ==
    /\ pc = "mmap_loop"
    /\ reader # <<>>
    /\ LET line_bytes == readline(reader)
       IN  /\ reader' = SubSeq(reader, Len(line_bytes) + 1, Len(reader))
           /\ analyzers' = [analyzers EXCEPT !.mmap =
                               process_line(@, decode(line_bytes)).self]
    /\ UNCHANGED <<file_exists, file_bytes, batch_size, pc, batch_lines,
                   outcome>>
    /\ UNCHANGED analyzer_vars
    /\ UNCHANGED chess_vars

\* readline() returned b"": the run completes
MmapEnd ==
    /\ pc = "mmap_loop"
    /\ reader = <<>>
    /\ outcome' = [outcome EXCEPT !.mmap = "completed"]
    /\ pc' = "done"
    /\ UNCHANGED <<file_exists, file_bytes, batch_size, reader, batch_lines,
                   analyzers>>
    /\ UNCHANGED analyzer_vars
    /\ UNCHANGED chess_vars

NextFile ==
    \/ StreamingCall
    \/ StreamingReadLine
    \/ StreamingEnd
    \/ MmapCall
    \/ MmapReadLine
    \/ MmapEnd

SpecFile == InitFile /\ [][NextFile]_vars

\* ------------------------------------------------------------------------
\* Claims checked under SpecFile
\* ------------------------------------------------------------------------

\* C1: for every input file, process_file_streaming and process_file_mmap
\* run on fresh analyzers end with the same https_domain1_count, the same
\* daily_stats and the same valid_lines_processed
C1_StrategyEquivalence ==
    pc = "done" =>
        /\ analyzers.streaming.https_domain1_count =
               analyzers.mmap.https_domain1_count
        /\ analyzers.streaming.daily_stats = analyzers.mmap.daily_stats
        /\ analyzers.streaming.valid_lines_processed =
               analyzers.mmap.valid_lines_processed

\* C2: for a non-existent input path both runs end without an exception
\* reaching the caller, with a 'file not found' outcome that is not the
\* generic I/O failure outcome, and with total_lines_processed = 0
C2_MissingFile ==
    ~file_exists =>
        /\ outcome.streaming \in {"not_run", "file_not_found"}
        /\ outcome.mmap \in {"not_run", "file_not_found"}
        /\ analyzers.streaming.total_lines_processed = 0
        /\ analyzers.mmap.total_lines_processed = 0

\* the file is one line: no terminator before its last byte
OneLine(bytes) ==
    /\ bytes # <<>>
    /\ \A i \in 1 .. Len(bytes) - 1 : bytes[i] \notin {LF, CR}

\* C17: a line that contains a byte sequence not decodable as UTF-8 (here
\* next to the text of a record) is counted in total_lines_processed but
\* not in valid_lines_processed, and changes no other counter, in both
\* ingestion strategies.
C17_UndecodableLine ==
    (/\ pc = "done"
     /\ OneLine(file_bytes)
     /\ \E i \in 1 .. Len(file_bytes) : file_bytes[i] = BAD
     /\ \E i \in 1 .. Len(file_bytes) : file_bytes[i].kind = "chunk") =>
        \A strategy \in {"streaming", "mmap"} :
            /\ analyzers[strategy].total_lines_processed = 1
            /\ analyzers[strategy].valid_lines_processed = 0
            /\ analyzers[strategy].https_domain1_count = 0
            /\ analyzers[strategy].daily_stats = EmptyDict

\* no byte of the file belongs to a record of the fixed layout, so no line
\* of it can be valid
NoRecord(bytes) ==
    \A i \in 1 .. Len(bytes) :
        bytes[i].kind = "chunk" => bytes[i].layout # "ok"

\* C19: for an existing file with zero valid lines, the empty file
\* included, process_file_streaming and process_file_mmap both end in the
\* 'completed' outcome, not in a file-access or I/O failure outcome, with
\* the secure-referer count, the valid-line count and the daily counters
\* all zero.
C19_NoValidLines ==
    (pc = "done" /\ file_exists /\ NoRecord(file_bytes)) =>
        /\ outcome.streaming = "completed"
        /\ outcome.mmap = "completed"
        /\ \A strategy \in {"streaming", "mmap"} :
            /\ analyzers[strategy].valid_lines_processed = 0
            /\ analyzers[strategy].https_domain1_count = 0
            /\ analyzers[strategy].daily_stats = EmptyDict

\* the counters after process_line was called once for each line, in
\* the order of the sequence
RECURSIVE OneByOne(_, _)
OneByOne(self, lines) ==
    IF lines = <<>> THEN self
    ELSE OneByOne(process_line(self, Head(lines)).self, Tail(lines))

\* the lines the iteration over the open file yields
LinesRead == text_lines(decode(file_bytes), <<>>)

\* C24: after a completed process_file_streaming run with any batch_size
\* >= 1, every line read from the file has been passed to process_line
\* exactly once and in file order, the final partial batch included:
\* total_lines_processed is the number of lines read and the counters are
\* those of processing the lines one by one, whatever batch_size is.
C24_EveryLineOnce ==
    outcome.streaming = "completed" =>
        /\ analyzers.streaming = OneByOne(reset_stats, LinesRead)
        /\ analyzers.streaming.total_lines_processed = Len(LinesRead)

\* a run with batch_size 2 completed over a file of three lines, the
\* first of them valid: the last batch holds one line
C24_Witness ==
    /\ outcome.streaming = "completed"
    /\ batch_size = 2
    /\ Len(LinesRead) = 3
    /\ log_pattern_match(LinesRead[1]).matched
    /\ analyzers.streaming.valid_lines_processed >= 1

\* ------------------------------------------------------------------------
\* fast_parse_timestamp on pairs of timestamps
\* ------------------------------------------------------------------------

\* timestamps of the layout: two days, known and unknown month names,
\* early and late hours, offsets west and east of UTC
TimeInputs ==
    {Timestamp("ok", d, m, 2019, h, tz) :
        d \in {1, 28}, m \in {"Feb", "Mar", "Foo", "feb"},
        h \in {1, 23}, tz \in {-5, 0, 5}}
    \cup {T_Feb31, T_Garbled}

InitTime ==
    /\ variant = "time"
    /\ hp = reset_stats
    /\ nla = nla_init
    /\ sna = sna_init
    /\ nlines = 0
    /\ last = Op("init", <<>>, None, <<>>)
    /\ file_exists = FALSE
    /\ file_bytes = <<>>
    /\ batch_size = 1
    /\ pc = "no_file"
    /\ reader = <<>>
    /\ batch_lines = <<>>
    /\ analyzers = [streaming |-> reset_stats, mmap |-> reset_stats]
    /\ outcome = [streaming |-> "not_run", mmap |-> "not_run"]
    /\ db = EmptyDb
    /\ mock = mock_init
    /\ sessions = <<>>
    /\ today = 1

\* analyzer.fast_parse_timestamp(t1) and analyzer.fast_parse_timestamp(t2)
FastParseTimestamp(t1, t2) ==
    /\ variant = "time"
    /\ last' = Op("fast_parse_timestamp", <<t1, t2>>, None,
                  <<fast_parse_timestamp(t1), fast_parse_timestamp(t2)>>)
    /\ UNCHANGED <<variant, hp, nla, sna, nlines>>
    /\ UNCHANGED file_vars
    /\ UNCHANGED <<mock, sessions, today>>
    /\ UNCHANGED chess_vars

NextTime == \E t1 \in TimeInputs, t2 \in TimeInputs : FastParseTimestamp(t1, t2)

SpecTime == InitTime /\ [][NextTime]_vars

\* the month number a reader takes from the written month name
WrittenMonth(mon) ==
    CASE mon = "Jan" -> 1 [] mon = "Feb" -> 2 [] mon = "Mar" -> 3
      [] mon = "Apr" -> 4 [] mon = "May" -> 5 [] mon = "Jun" -> 6
      [] mon = "Jul" -> 7 [] mon = "Aug" -> 8 [] mon = "Sep" -> 9
      [] mon = "Oct" -> 10 [] mon = "Nov" -> 11 [] mon = "Dec" -> 12
      [] OTHER -> 0

\* the UTC calendar day of the instant a timestamp denotes
UtcDay(t) == get_date_key(strptime(t))

\* C11: two timestamps of the layout, with month names of the calendar,
\* that denote instants on the same UTC calendar day get equal date keys
\* from fast_parse_timestamp, whatever the sign and magnitude of their
\* offsets.
C11_SameUtcDaySameKey ==
    last.op = "fast_parse_timestamp" =>
        LET a == last.arg[1]
            b == last.arg[2]
        IN  (/\ WrittenMonth(a.mon) # 0
             /\ WrittenMonth(b.mon) # 0
             /\ strptime(a).ok
             /\ strptime(b).ok
             /\ UtcDay(a) = UtcDay(b)) => last.ret[1] = last.ret[2]

InitMerge ==
    /\ variant = "merge"
    /\ hp = reset_stats
    /\ nla = nla_init
    /\ sna = sna_init
    /\ nlines = 0
    /\ last = Op("init", <<>>, None, <<>>)
    /\ file_exists = FALSE
    /\ file_bytes = <<>>
    /\ batch_size = 1
    /\ pc = "first_part"
    /\ reader = <<>>
    /\ batch_lines = <<>>
    /\ analyzers = [whole |-> reset_stats, first |-> reset_stats,
                    second |-> reset_stats]
    /\ outcome = [streaming |-> "not_run", mmap |-> "not_run"]
    /\ db = EmptyDb
    /\ mock = mock_init
    /\ sessions = <<>>
    /\ today = 1

\* process_line(line) on the analyzer of the whole sequence and on the
\* analyzer of the first part
FeedFirst(line) ==
    /\ pc = "first_part"
    /\ nlines < MaxLines
    /\ analyzers' = [analyzers EXCEPT
                        !.whole = process_line(@, line).self,
                        !.first = process_line(@, line).self]
    /\ nlines' = nlines + 1
    /\ UNCHANGED <<variant, hp, nla, sna, last>>
    /\ UNCHANGED <<file_exists, file_bytes, batch_size, pc, reader,
                   batch_lines, outcome>>
    /\ UNCHANGED chess_vars

\* the split point: the lines that follow go to the second part
SplitHere ==
    /\ pc = "first_part"
    /\ pc' = "second_part"
    /\ UNCHANGED analyzer_vars
    /\ UNCHANGED <<file_exists, file_bytes, batch_size, reader, batch_lines,
                   analyzers, outcome>>
    /\ UNCHANGED chess_vars

\* process_line(line) on the analyzer of the whole sequence and on the
\* analyzer of the second part
FeedSecond(line) ==
    /\ pc = "second_part"
    /\ nlines < MaxLines
    /\ analyzers' = [analyzers EXCEPT
                        !.whole = process_line(@, line).self,
                        !.second = process_line(@, line).self]
    /\ nlines' = nlines + 1
    /\ UNCHANGED <<variant, hp, nla, sna, last>>
    /\ UNCHANGED <<file_exists, file_bytes, batch_size, pc, reader,
                   batch_lines, outcome>>
    /\ UNCHANGED chess_vars

NextMerge ==
    \/ \E line \in Lines : FeedFirst(line)
    \/ SplitHere
    \/ \E line \in Lines : FeedSecond(line)

SpecMerge == InitMerge /\ [][NextMerge]_vars

\* the component-wise sum of the counters of two analyzers
Merge(a, b) ==
    [https_domain1_count |-> a.https_domain1_count + b.https_domain1_count,
     total_lines_processed |->
        a.total_lines_processed + b.total_lines_processed,
     valid_lines_processed |->
        a.valid_lines_processed + b.valid_lines_processed,
     daily_stats |->
        [k \in DOMAIN a.daily_stats \cup DOMAIN b.daily_stats |->
            [total |-> CountOf(a.daily_stats, k).total
                        + CountOf(b.daily_stats, k).total,
             success |-> CountOf(a.daily_stats, k).success
                        + CountOf(b.daily_stats, k).success]]]

\* C13: for every sequence of lines and every split point at a line
\* boundary, the counters of two fresh analyzers that aggregated the two
\* parts, summed component-wise (secure-referer count, valid and total
\* line counts, total and success of each date), equal the counters of one
\* analyzer that aggregated the whole sequence.
C13_Merge == analyzers.whole = Merge(analyzers.first, analyzers.second)

\* both parts hold a record of the same date, and one date is in one part
\* only
C13_Witness ==
    /\ pc = "second_part"
    /\ \E d \in DOMAIN analyzers.first.daily_stats :
            d \in DOMAIN analyzers.second.daily_stats
    /\ DOMAIN analyzers.first.daily_stats
            # DOMAIN analyzers.second.daily_stats
    /\ analyzers.whole.https_domain1_count >= 2

\* ------------------------------------------------------------------------
\* Two runs over the same file
\* ------------------------------------------------------------------------

\* the loop of process_file_streaming and the flush after it
RECURSIVE streaming_loop(_, _, _, _)
streaming_loop(self, lines, batch, size) ==
    IF lines = <<>> THEN hp_process_batch(self, batch)
    ELSE LET b == Append(batch, Head(lines))
         IN  IF Len(b) >= size
             THEN streaming_loop(hp_process_batch(self, b), Tail(lines),
                                 <<>>, size)
             ELSE streaming_loop(self, Tail(lines), b, size)

\* process_file_streaming that starts from zeroed counters
process_file_streaming_resets(self, exists, bytes, size) ==
    IF ~exists THEN [self |-> self, outcome |-> "raised"]
    ELSE [self |-> streaming_loop(reset_stats,
                                  text_lines(decode(bytes), <<>>),
                                  <<>>, size),
          outcome |-> "completed"]

\* process_file_streaming from call to return: the counters after it and
\* how it ended
process_file_streaming(self, exists, bytes, size) ==
    IF ~exists THEN [self |-> self, outcome |-> "raised"]
    ELSE [self |-> streaming_loop(self, text_lines(decode(bytes), <<>>),
                                  <<>>, size),
          outcome |-> "completed"]

\* the loop of process_file_mmap
RECURSIVE mmap_loop(_, _)
mmap_loop(self, bytes) ==
    IF bytes = <<>> THEN self
    ELSE LET line_bytes == readline(bytes)
         IN  mmap_loop(process_line(self, decode(line_bytes)).self,
                       SubSeq(bytes, Len(line_bytes) + 1, Len(bytes)))

\* process_file_mmap from call to return
process_file_mmap(self, exists, bytes) ==
    IF ~exists \/ bytes = <<>> THEN [self |-> self, outcome |-> "io_error"]
    ELSE [self |-> mmap_loop(self, bytes), outcome |-> "completed"]

\* one run of the named strategy on the file of the state
RunStrategy(strategy, self) ==
    IF strategy = "process_file_streaming"
    THEN process_file_streaming(self, file_exists, file_bytes, batch_size)
    ELSE process_file_mmap(self, file_exists, file_bytes)

Strategies == {"process_file_streaming", "process_file_mmap"}

\* reset_stats that leaves daily_stats as it is
reset_stats_on_keeps_daily(self) ==
    [self EXCEPT !.https_domain1_count = 0,
                 !.total_lines_processed = 0,
                 !.valid_lines_processed = 0]

\* self.reset_stats() on an analyzer that has counted
reset_stats_on(self) ==
    [self EXCEPT !.https_domain1_count = 0,
                 !.daily_stats = EmptyDict,
                 !.total_lines_processed = 0,
                 !.valid_lines_processed = 0]

\* main() has built its analyzer; the file does not change between runs
InitRuns ==
    /\ variant = "runs"
    /\ hp = reset_stats
    /\ nla = nla_init
    /\ sna = sna_init
    /\ nlines = 0
    /\ last = Op("init", <<>>, None, <<>>)
    /\ file_exists \in BOOLEAN
    /\ file_bytes \in SeqsUpTo(FileTokens, MaxFileLen)
    /\ ~file_exists => file_bytes = <<>>
    /\ batch_size \in 1 .. MaxBatch
    /\ pc = "first_run"
    /\ reader = <<>>
    /\ batch_lines = <<>>
    /\ analyzers = [streaming |-> reset_stats, mmap |-> reset_stats]
    /\ outcome = [first |-> "not_run", second |-> "not_run"]
    /\ db = EmptyDb
    /\ mock = mock_init
    /\ sessions = <<>>
    /\ today = 1

\* the first run; last keeps the counters it ended with
FirstRun(strategy) ==
    /\ pc = "first_run"
    /\ LET run == RunStrategy(strategy, hp)
       IN  /\ hp' = run.self
           /\ outcome' = [outcome EXCEPT !.first = run.outcome]
           /\ last' = Op(strategy, <<>>, None, <<run.self>>)
    /\ pc' = "ran_once"
    /\ UNCHANGED <<variant, nla, sna, nlines>>
    /\ UNCHANGED <<file_exists, file_bytes, batch_size, reader, batch_lines,
                   analyzers>>
    /\ UNCHANGED chess_vars

\* the program is started again: main() builds a new analyzer
NewAnalyzer ==
    /\ pc = "ran_once"
    /\ hp' = reset_stats
    /\ pc' = "fresh"
    /\ UNCHANGED <<variant, nla, sna, nlines, last>>
    /\ UNCHANGED <<file_exists, file_bytes, batch_size, reader, batch_lines,
                   analyzers, outcome>>
    /\ UNCHANGED chess_vars

\* analyzer.reset_stats() between the runs
ResetStats ==
    /\ pc = "ran_once"
    /\ hp' = reset_stats_on(hp)
    /\ pc' = "reset"
    /\ UNCHANGED <<variant, nla, sna, nlines, last>>
    /\ UNCHANGED <<file_exists, file_bytes, batch_size, reader, batch_lines,
                   analyzers, outcome>>
    /\ UNCHANGED chess_vars

\* the second run of the same strategy: on the analyzer of the first run
\* as it is ("ran_once"), on a new one, or after reset_stats()
SecondRun ==
    /\ pc \in {"ran_once", "fresh", "reset"}
    /\ LET run == RunStrategy(last.op, hp)
       IN  /\ hp' = run.self
           /\ outcome' = [outcome EXCEPT !.second = run.outcome]
    /\ pc' = CASE pc = "ran_once" -> "ran_twice_same"
                [] pc = "fresh" -> "ran_twice_fresh"
                [] pc = "reset" -> "ran_twice_reset"
    /\ UNCHANGED <<variant, nla, sna, nlines, last>>
    /\ UNCHANGED <<file_exists, file_bytes, batch_size, reader, batch_lines,
                   analyzers>>
    /\ UNCHANGED chess_vars

NextRuns ==
    \/ \E strategy \in Strategies : FirstRun(strategy)
    \/ NewAnalyzer
    \/ ResetStats
    \/ SecondRun

SpecRuns == InitRuns /\ [][NextRuns]_vars

InitFail ==
    /\ variant = "hp"
    /\ hp = reset_stats
    /\ nla = nla_init
    /\ sna = sna_init
    /\ nlines = 0
    /\ last = Op("init", <<>>, None, <<>>)
    /\ file_exists \in BOOLEAN
    /\ file_bytes \in SeqsUpTo(FileTokens, MaxFileLen)
    /\ ~file_exists => file_bytes = <<>>
    /\ batch_size \in 1 .. MaxBatch
    /\ pc \in {"streaming_call", "analyze_call"}
    /\ pc = "analyze_call" => batch_size = 1
    /\ reader = <<>>
    /\ batch_lines = <<>>
    /\ analyzers = [streaming |-> reset_stats, mmap |-> reset_stats]
    /\ outcome = [streaming |-> "not_run", mmap |-> "not_run",
                  analyze |-> "not_run"]
    /\ db = EmptyDb
    /\ mock = mock_init
    /\ sessions = <<>>
    /\ today = 1

\* analyze_nginx_logs up to the start of the loop; for a missing file the
\* FileNotFoundError handler returns (0, 0.0)
AnalyzeCall(target_date) ==
    /\ pc = "analyze_call"
    /\ IF ~file_exists
       THEN /\ outcome' = [outcome EXCEPT !.analyze = "file_not_found"]
            /\ last' = Op("analyze_nginx_logs", <<>>, target_date,
                          <<0, ZeroRate>>)
            /\ pc' = "done"
            /\ UNCHANGED <<reader, sna>>
       ELSE /\ reader' = text_lines(decode(file_bytes), <<>>)
            /\ sna' = sna_init
            /\ last' = Op("analyze_nginx_logs", <<>>, target_date, <<>>)
            /\ pc' = "analyze_loop"
            /\ UNCHANGED outcome
    /\ UNCHANGED <<variant, hp, nla, nlines>>
    /\ UNCHANGED <<file_exists, file_bytes, batch_size, batch_lines,
                   analyzers>>
    /\ UNCHANGED chess_vars

\* one iteration of 'for line in file' of analyze_nginx_logs
AnalyzeReadLine ==
    /\ pc = "analyze_loop"
    /\ reader # <<>>
    /\ sna' = sna_line(sna, Head(reader))
    /\ reader' = Tail(reader)
    /\ UNCHANGED <<variant, hp, nla, nlines, last>>
    /\ UNCHANGED <<file_exists, file_bytes, batch_size, pc, batch_lines,
                   analyzers, outcome>>
    /\ UNCHANGED chess_vars

\* the end of the file: analyze_nginx_logs returns its pair
AnalyzeEnd ==
    /\ pc = "analyze_loop"
    /\ reader = <<>>
    /\ last' = [last EXCEPT !.ret = sna_return(sna, last.target_date).ret]
    /\ outcome' = [outcome EXCEPT !.analyze = "completed"]
    /\ pc' = "done"
    /\ UNCHANGED <<variant, hp, nla, sna, nlines>>
    /\ UNCHANGED <<file_exists, file_bytes, batch_size, reader, batch_lines,
                   analyzers>>
    /\ UNCHANGED chess_vars

\* reading the next line raises OSError in process_file_streaming: the
\* 'except Exception' handler prints and the method returns; the lines of
\* the batch not yet flushed are not processed
StreamingIOError ==
    /\ pc = "streaming_loop"
    /\ outcome' = [outcome EXCEPT !.streaming = "io_error"]
    /\ batch_lines' = <<>>
    /\ pc' = "failed"
    /\ UNCHANGED <<file_exists, file_bytes, batch_size, reader, analyzers>>
    /\ UNCHANGED analyzer_vars
    /\ UNCHANGED chess_vars

\* an exception in the loop of process_file_mmap: the 'except Exception'
\* handler prints and the method returns
MmapIOError ==
    /\ pc = "mmap_loop"
    /\ outcome' = [outcome EXCEPT !.mmap = "io_error"]
    /\ pc' = "failed"
    /\ UNCHANGED <<file_exists, file_bytes, batch_size, reader, batch_lines,
                   analyzers>>
    /\ UNCHANGED analyzer_vars
    /\ UNCHANGED chess_vars

\* reading the next line raises OSError in analyze_nginx_logs: the
\* 'except Exception' handler returns 0, 0.0
AnalyzeIOError ==
    /\ pc = "analyze_loop"
    /\ last' = [last EXCEPT !.ret = <<0, ZeroRate>>]
    /\ outcome' = [outcome EXCEPT !.analyze = "io_error"]
    /\ pc' = "failed"
    /\ UNCHANGED <<variant, hp, nla, sna, nlines>>
    /\ UNCHANGED <<file_exists, file_bytes, batch_size, reader, batch_lines,
                   analyzers>>
    /\ UNCHANGED chess_vars

NextFail ==
    \/ StreamingCall
    \/ StreamingReadLine
    \/ StreamingEnd
    \/ StreamingIOError
    \/ MmapCall
    \/ MmapReadLine
    \/ MmapEnd
    \/ MmapIOError
    \/ \E target_date \in TargetDates \cup {None} : AnalyzeCall(target_date)
    \/ AnalyzeReadLine
    \/ AnalyzeEnd
    \/ AnalyzeIOError

SpecFail == InitFail /\ [][NextFail]_vars

\* C15: when an I/O failure interrupts a run after some lines were
\* aggregated, the counters accumulated before the failure remain
\* available from the query or the return value, they are not reset or
\* replaced by zeros: get_results answers after the failure as before it
\* for process_file_streaming and process_file_mmap, and
\* analyze_nginx_logs returns the count and rate of the lines it
\* aggregated.
C15_FailureKeepsCounters ==
    [][pc' = "failed" =>
        /\ \A d \in TargetDates \cup {None} :
            /\ get_results(analyzers'.streaming, d).ret
                    = get_results(analyzers.streaming, d).ret
            /\ get_results(analyzers'.mmap, d).ret
                    = get_results(analyzers.mmap, d).ret
        /\ pc = "analyze_loop" =>
                last'.ret = sna_return(sna, last.target_date).ret]_vars

\* ------------------------------------------------------------------------
\* Club membership: calls of the service executed one at a time
\* ------------------------------------------------------------------------

InitClub ==
    /\ variant = "club"
    /\ hp = reset_stats
    /\ nla = nla_init
    /\ sna = sna_init
    /\ nlines = 0
    /\ last = Op("init", <<>>, None, <<>>)
    /\ file_exists = FALSE
    /\ file_bytes = <<>>
    /\ batch_size = 1
    /\ pc = "no_file"
    /\ reader = <<>>
    /\ batch_lines = <<>>
    /\ analyzers = [streaming |-> reset_stats, mmap |-> reset_stats]
    /\ outcome = [streaming |-> "not_run", mmap |-> "not_run"]
    /\ db = EmptyDb
    /\ mock = mock_init
    /\ sessions = <<>>
    /\ today = 1

\* service.add_member_to_club(player_id, club_id), from query to commit
AddMemberToClub(player_id, club_id) ==
    /\ variant = "club"
    /\ Len(db.members) < MaxMembers
    /\ \E existing_active \in FirstActive(db, player_id) :
        LET r == add_member_to_club(db, player_id, club_id, existing_active)
        IN  /\ db' = r.db
            /\ last' = Op("add_member_to_club", <<player_id, club_id>>,
                          None, r.ret)
    /\ UNCHANGED <<variant, hp, nla, sna, nlines>>
    /\ UNCHANGED file_vars
    /\ UNCHANGED <<mock, sessions, today>>

\* service.transfer_member(player_id, new_club_id), from query to commit
TransferMember(player_id, new_club_id) ==
    /\ variant = "club"
    /\ Len(db.members) < MaxMembers
    /\ \E current_membership \in FirstActive(db, player_id) :
        LET r == transfer_member(db, player_id, new_club_id,
                                 current_membership)
        IN  /\ db' = r.db
            /\ last' = Op("transfer_member", <<player_id, new_club_id>>,
                          None, r.ret)
    /\ UNCHANGED <<variant, hp, nla, sna, nlines>>
    /\ UNCHANGED file_vars
    /\ UNCHANGED <<mock, sessions, today>>

NextClub ==
    \/ \E player_id \in Players, club_id \in Clubs :
            AddMemberToClub(player_id, club_id)
    \/ \E player_id \in Players, new_club_id \in Clubs :
            TransferMember(player_id, new_club_id)

SpecClub == InitClub /\ [][NextClub]_vars

\* the number of Member rows of a player with status ACTIVE
ActiveCount(d, player_id) ==
    Cardinality({i \in 1 .. Len(d.members) :
                    /\ d.members[i].player_id = player_id
                    /\ d.members[i].status = "ACTIVE"})

\* C20: after any sequence of add_member_to_club and transfer_member calls
\* executed one at a time, every player has at most one Member row with
\* status ACTIVE; add_member_to_club for a player who has an active
\* membership raises ValueError and adds no row.
C20_OneActiveMembership ==
    [][/\ \A p \in Players : ActiveCount(db', p) <= 1
       /\ (/\ last'.op = "add_member_to_club"
           /\ ActiveCount(db, last'.arg[1]) >= 1) =>
                /\ last'.ret.exception = "ValueError"
                /\ db' = db]_vars

\* add_member_to_club was refused for a player who had been transferred,
\* while both players hold one active membership
C20_Witness ==
    /\ last.op = "add_member_to_club"
    /\ last.ret.exception = "ValueError"
    /\ \A p \in Players : ActiveCount(db, p) = 1
    /\ \E i \in 1 .. Len(db.members) :
            /\ db.members[i].player_id = last.arg[1]
            /\ db.members[i].status = "INACTIVE"

\* ------------------------------------------------------------------------
\* Matches and standings (src/chess_tournament_service.py,
\* src/chess_tournament_models.py, src/chess_tournament_api.py)
\* ------------------------------------------------------------------------

\* tournament_id values
TournamentIds == {1, 2}

\* MatchResultEnum, by value
MatchResults == {"1-0", "0-1", "1/2-1/2", "*"}

\* the rating a new player gets (Player.rating default)
DefaultRating == 1200

\* the tables after create_player was called once for each player
DbWithPlayers == [EmptyDb EXCEPT !.players = [p \in Players |-> DefaultRating]]

\* Match(...): the row create_match builds; result and status take the
\* values create_match and the column default give
Match(match_id, tournament_id, round_number, white_player_id, black_player_id) ==
    [match_id |-> match_id, tournament_id |-> tournament_id,
     round_number |-> round_number, white_player_id |-> white_player_id,
     black_player_id |-> black_player_id, result |-> "*",
     status |-> "Scheduled"]

\* CheckConstraint('white_player_id != black_player_id')
check_different_players(row) == row.white_player_id # row.black_player_id

\* service.create_match: the tables after the call and how it ended; the
\* INSERT of session.commit() fails on the check constraint
create_match(d, tournament_id, round_number, white_player_id, black_player_id) ==
    LET match == Match(Len(d.matches) + 1, tournament_id, round_number,
                       white_player_id, black_player_id)
    IN  IF ~check_different_players(match)
        THEN [db |-> d, ret |-> Raised("IntegrityError")]
        ELSE [db |-> [d EXCEPT !.matches = Append(@, match)],
              ret |-> Returned(match.match_id)]

\* the response of POST /matches/: the success message with the request
\* body, whatever the body holds
post_matches(match) == [status_code |-> 200, match |-> match]

\* Match.get_result_for_player, in half points: 2 for 1.0, 1 for 0.5,
\* 0 for 0.0
get_result_for_player(match, player_id) ==
    IF match.result = "*" THEN 0
    ELSE IF match.result = "1/2-1/2" THEN 1
    ELSE IF match.result = "1-0"
         THEN (IF match.white_player_id = player_id THEN 2 ELSE 0)
    ELSE IF match.result = "0-1"
         THEN (IF match.black_player_id = player_id THEN 2 ELSE 0)
    ELSE 0

\* the participants query of _update_tournament_standings, as player ids
ParticipantsOf(d, tournament_id) ==
    {r.player_id : r \in {q \in d.participants :
                            q.tournament_id = tournament_id}}

\* the matches query of _update_tournament_standings, by index
CompletedMatchesOf(d, tournament_id, player_id) ==
    {i \in 1 .. Len(d.matches) :
        /\ d.matches[i].tournament_id = tournament_id
        /\ \/ d.matches[i].white_player_id = player_id
           \/ d.matches[i].black_player_id = player_id
        /\ d.matches[i].status = "Completed"}

\* points += match.get_result_for_player(player_id) over the matches
RECURSIVE SumOfResults(_, _, _)
SumOfResults(d, player_id, matches) ==
    IF matches = {} THEN 0
    ELSE LET i == CHOOSE x \in matches : TRUE
         IN  get_result_for_player(d.matches[i], player_id)
             + SumOfResults(d, player_id, matches \ {i})

\* the number of the matches whose result for the player is the given one
CountOfResult(d, player_id, matches, result) ==
    Cardinality({i \in matches :
        get_result_for_player(d.matches[i], player_id) = result})

\* the standing row _update_tournament_standings writes for one
\* participant; points in half points
Standing(d, tournament_id, player_id) ==
    LET matches == CompletedMatchesOf(d, tournament_id, player_id)
    IN  [tournament_id |-> tournament_id, player_id |-> player_id,
         points |-> SumOfResults(d, player_id, matches),
         games_played |-> Cardinality(matches),
         wins |-> CountOfResult(d, player_id, matches, 2),
         draws |-> CountOfResult(d, player_id, matches, 1),
         losses |-> CountOfResult(d, player_id, matches, 0)]

\* _update_tournament_standings: the standing of every participant of the
\* tournament is created or overwritten; other rows stay
update_tournament_standings(d, tournament_id) ==
    LET participants == ParticipantsOf(d, tournament_id)
        kept == {s \in d.standings :
                    ~(/\ s.tournament_id = tournament_id
                      /\ s.player_id \in participants)}
    IN  [d EXCEPT !.standings =
            kept \cup {Standing(d, tournament_id, p) : p \in participants}]

\* service.update_match_result: the tables after the call and how it ended
update_match_result(d, match_id, result) ==
    IF match_id \notin 1 .. Len(d.matches)
    THEN [db |-> d, ret |-> Raised("ValueError")]
    ELSE LET d1 == [d EXCEPT !.matches[match_id].result = result,
                             !.matches[match_id].status = "Completed"]
         IN  [db |-> update_tournament_standings(
                        d1, d1.matches[match_id].tournament_id),
              ret |-> Returned(match_id)]

\* service.register_player_for_tournament: the tables after the call and
\* how it ended
register_player_for_tournament(d, tournament_id, player_id) ==
    IF \E r \in d.participants :
            r.tournament_id = tournament_id /\ r.player_id = player_id
    THEN [db |-> d, ret |-> Raised("ValueError")]
    ELSE IF player_id \notin DOMAIN d.players
    THEN [db |-> d, ret |-> Raised("ValueError")]
    ELSE [db |-> [d EXCEPT !.participants = @ \cup
                    {[tournament_id |-> tournament_id,
                      player_id |-> player_id,
                      initial_rating |-> d.players[player_id],
                      status |-> "Registered"]}],
          ret |-> Returned(player_id)]

InitMatch ==
    /\ variant = "match"
    /\ hp = reset_stats
    /\ nla = nla_init
    /\ sna = sna_init
    /\ nlines = 0
    /\ last = Op("init", <<>>, None, <<>>)
    /\ file_exists = FALSE
    /\ file_bytes = <<>>
    /\ batch_size = 1
    /\ pc = "no_file"
    /\ reader = <<>>
    /\ batch_lines = <<>>
    /\ analyzers = [streaming |-> reset_stats, mmap |-> reset_stats]
    /\ outcome = [streaming |-> "not_run", mmap |-> "not_run"]
    /\ db = DbWithPlayers
    /\ mock = mock_init
    /\ sessions = <<>>
    /\ today = 1

\* service.create_match(tournament_id, 1, white_player_id, black_player_id)
CreateMatch(tournament_id, white_player_id, black_player_id) ==
    /\ variant = "match"
    /\ Len(db.matches) < MaxMatches
    /\ LET r == create_match(db, tournament_id, 1, white_player_id,
                             black_player_id)
       IN  /\ db' = r.db
           /\ last' = Op("create_match",
                         [tournament_id |-> tournament_id,
                          white_player_id |-> white_player_id,
                          black_player_id |-> black_player_id],
                         None, r.ret)
    /\ UNCHANGED <<variant, hp, nla, sna, nlines>>
    /\ UNCHANGED file_vars
    /\ UNCHANGED <<mock, sessions, today>>

\* POST /matches/ with a MatchCreate body
PostMatches(tournament_id, white_player_id, black_player_id) ==
    /\ variant = "match"
    /\ LET match == [tournament_id |-> tournament_id,
                     white_player_id |-> white_player_id,
                     black_player_id |-> black_player_id]
       IN  last' = Op("POST /matches/", match, None, post_matches(match))
    /\ UNCHANGED <<variant, hp, nla, sna, nlines>>
    /\ UNCHANGED file_vars
    /\ UNCHANGED chess_vars

\* service.register_player_for_tournament(tournament_id, player_id)
RegisterPlayerForTournament(tournament_id, player_id) ==
    /\ variant = "match"
    /\ LET r == register_player_for_tournament(db, tournament_id, player_id)
       IN  /\ db' = r.db
           /\ last' = Op("register_player_for_tournament",
                         [tournament_id |-> tournament_id,
                          player_id |-> player_id], None, r.ret)
    /\ UNCHANGED <<variant, hp, nla, sna, nlines>>
    /\ UNCHANGED file_vars
    /\ UNCHANGED <<mock, sessions, today>>

\* service.update_match_result(match_id, result)
UpdateMatchResult(match_id, result) ==
    /\ variant = "match"
    /\ LET r == update_match_result(db, match_id, result)
       IN  /\ db' = r.db
           /\ last' = Op("update_match_result",
                         [match_id |-> match_id, result |-> result],
                         None, r.ret)
    /\ UNCHANGED <<variant, hp, nla, sna, nlines>>
    /\ UNCHANGED file_vars
    /\ UNCHANGED <<mock, sessions, today>>

NextMatch ==
    \/ \E tournament_id \in TournamentIds, white_player_id \in Players,
          black_player_id \in Players :
            CreateMatch(tournament_id, white_player_id, black_player_id)
    \/ \E tournament_id \in TournamentIds, white_player_id \in Players,
          black_player_id \in Players :
            PostMatches(tournament_id, white_player_id, black_player_id)

SpecMatch == InitMatch /\ [][NextMatch]_vars

\* the calls of the service that matter to the standings of a tournament
NextStandings ==
    \/ \E tournament_id \in TournamentIds, white_player_id \in Players,
          black_player_id \in Players :
            CreateMatch(tournament_id, white_player_id, black_player_id)
    \/ \E tournament_id \in TournamentIds, player_id \in Players :
            RegisterPlayerForTournament(tournament_id, player_id)
    \/ \E match_id \in 1 .. MaxMatches + 1, result \in MatchResults :
            UpdateMatchResult(match_id, result)

SpecStandings == InitMatch /\ [][NextStandings]_vars

\* how a call or a request ended: with an error or not
Rejected(ret) ==
    IF "status_code" \in DOMAIN ret THEN ret.status_code >= 400
    ELSE ret.exception # "none"

\* C21: creating a match whose white player and black player are the same
\* player is rejected with an error and stores no match, through
\* ChessTournamentService.create_match and through POST /matches/.
C21_SamePlayerMatchRejected ==
    [][(/\ last'.op \in {"create_match", "POST /matches/"}
        /\ last'.arg.white_player_id = last'.arg.black_player_id) =>
            /\ Rejected(last'.ret)
            /\ db'.matches = db.matches]_vars

\* ------------------------------------------------------------------------
\* Tournaments (src/chess_tournament_service.py,
\* src/chess_tournament_models.py, src/chess_tournament_api.py)
\* ------------------------------------------------------------------------

\* tournament_code values
TournamentCodes == {"T1", "T2"}

\* start_date and end_date values, as day numbers
Dates == {1, 2}

\* Tournament(...): the row create_tournament builds
Tournament(tournament_id, code, start_date, end_date) ==
    [tournament_id |-> tournament_id, tournament_code |-> code,
     start_date |-> start_date, end_date |-> end_date, status |-> "Planned"]

\* CheckConstraint('end_date >= start_date')
check_tournament_dates(row) == row.end_date >= row.start_date

\* tournament_code = Column(String(20), unique=True, nullable=False)
tournament_code_unique(d, row) ==
    \A i \in 1 .. Len(d.tournaments) :
        d.tournaments[i].tournament_code # row.tournament_code

\* service.create_tournament: the tables after the call and how it ended;
\* the INSERT of session.commit() fails on a violated constraint
create_tournament(d, code, start_date, end_date) ==
    LET tournament == Tournament(Len(d.tournaments) + 1, code, start_date,
                                 end_date)
    IN  IF ~(/\ check_tournament_dates(tournament)
             /\ tournament_code_unique(d, tournament))
        THEN [db |-> d, ret |-> Raised("IntegrityError")]
        ELSE [db |-> [d EXCEPT !.tournaments = Append(@, tournament)],
              ret |-> Returned(tournament.tournament_id)]

\* MockChessTournamentService.create_tournament(**kwargs): the store after
\* the call and the dict it returns
mock_create_tournament(mk, kwargs) ==
    LET tournament ==
            [tournament_id |-> mk.next_id, status |-> "Planned",
             tournament_code |-> kwargs.tournament_code,
             start_date |-> kwargs.start_date,
             end_date |-> kwargs.end_date]
    IN  [mock |-> [tournaments |-> Append(mk.tournaments, tournament),
                   next_id |-> mk.next_id + 1],
         ret |-> tournament]

\* POST /tournaments/ with a TournamentCreate body: the store after the
\* request and the response
post_tournaments(mk, tournament) ==
    LET r == mock_create_tournament(mk, tournament)
    IN  [mock |-> r.mock,
         ret |-> [status_code |-> 200, tournament |-> r.ret]]

InitTournament ==
    /\ variant = "tournament"
    /\ hp = reset_stats
    /\ nla = nla_init
    /\ sna = sna_init
    /\ nlines = 0
    /\ last = Op("init", <<>>, None, <<>>)
    /\ file_exists = FALSE
    /\ file_bytes = <<>>
    /\ batch_size = 1
    /\ pc = "no_file"
    /\ reader = <<>>
    /\ batch_lines = <<>>
    /\ analyzers = [streaming |-> reset_stats, mmap |-> reset_stats]
    /\ outcome = [streaming |-> "not_run", mmap |-> "not_run"]
    /\ db = EmptyDb
    /\ mock = mock_init
    /\ sessions = <<>>
    /\ today = 1

\* service.create_tournament(code, name, start_date, end_date)
CreateTournament(code, start_date, end_date) ==
    /\ variant = "tournament"
    /\ Len(db.tournaments) < MaxTournaments
    /\ LET r == create_tournament(db, code, start_date, end_date)
       IN  /\ db' = r.db
           /\ last' = Op("create_tournament",
                         [tournament_code |-> code,
                          start_date |-> start_date,
                          end_date |-> end_date], None, r.ret)
    /\ UNCHANGED <<variant, hp, nla, sna, nlines>>
    /\ UNCHANGED file_vars
    /\ UNCHANGED <<mock, sessions, today>>

\* POST /tournaments/ with a TournamentCreate body
PostTournaments(code, start_date, end_date) ==
    /\ variant = "tournament"
    /\ Len(mock.tournaments) < MaxTournaments
    /\ LET tournament == [tournament_code |-> code,
                          start_date |-> start_date,
                          end_date |-> end_date]
           r == post_tournaments(mock, tournament)
       IN  /\ mock' = r.mock
           /\ last' = Op("POST /tournaments/", tournament, None, r.ret)
    /\ UNCHANGED <<variant, hp, nla, sna, nlines>>
    /\ UNCHANGED file_vars
    /\ UNCHANGED <<db, sessions, today>>

NextTournament ==
    \/ \E code \in TournamentCodes, start_date \in Dates, end_date \in Dates :
            CreateTournament(code, start_date, end_date)
    \/ \E code \in TournamentCodes, start_date \in Dates, end_date \in Dates :
            PostTournaments(code, start_date, end_date)

SpecTournament == InitTournament /\ [][NextTournament]_vars

\* C22: creating a tournament whose end date is earlier than its start
\* date is rejected with an error and stores no tournament, through
\* ChessTournamentService.create_tournament and through POST /tournaments/;
\* hence every stored tournament has end_date >= start_date.
C22_EndBeforeStartRejected ==
    [][/\ (/\ last'.op \in {"create_tournament", "POST /tournaments/"}
           /\ last'.arg.end_date < last'.arg.start_date) =>
                /\ Rejected(last'.ret)
                /\ db'.tournaments = db.tournaments
                /\ mock'.tournaments = mock.tournaments
       /\ \A i \in 1 .. Len(db'.tournaments) :
                db'.tournaments[i].end_date >= db'.tournaments[i].start_date
       /\ \A i \in 1 .. Len(mock'.tournaments) :
                mock'.tournaments[i].end_date
                    >= mock'.tournaments[i].start_date]_vars

\* ------------------------------------------------------------------------
\* Rating history (src/chess_tournament_service.py,
\* src/chess_tournament_models.py)
\* ------------------------------------------------------------------------

\* new_rating values
Ratings == {1200, 1250, 1300}

\* player_id values of the callers: the two players and one that does not
\* exist
PlayerIds == Players \cup {3}

\* PlayerRanking(...): the row update_player_rating builds
PlayerRanking(ranking_id, player_id, rating, ranking_date, rating_change) ==
    [ranking_id |-> ranking_id, player_id |-> player_id, rating |-> rating,
     ranking_date |-> ranking_date, rating_change |-> rating_change]

\* UniqueConstraint('player_id', 'ranking_date')
unique_player_date(d, row) ==
    \A i \in 1 .. Len(d.rankings) :
        ~(/\ d.rankings[i].player_id = row.player_id
          /\ d.rankings[i].ranking_date = row.ranking_date)

\* update_player_rating whose change of Player.rating outlives the failed
\* commit
update_player_rating_keeps_rating(d, day, player_id, new_rating) ==
    IF player_id \notin DOMAIN d.players
    THEN [db |-> d, ret |-> Raised("ValueError")]
    ELSE
    LET old_rating == d.players[player_id]
        ranking == PlayerRanking(Len(d.rankings) + 1, player_id, new_rating,
                                 day, new_rating - old_rating)
        d1 == [d EXCEPT !.players[player_id] = new_rating]
    IN  IF ~unique_player_date(d, ranking)
        THEN [db |-> d1, ret |-> Raised("IntegrityError")]
        ELSE [db |-> [d1 EXCEPT !.rankings = Append(@, ranking)],
              ret |-> Returned(ranking.ranking_id)]

\* service.update_player_rating on the day date.today() gives: the tables
\* after the call and how it ended. The UPDATE of the player and the
\* INSERT of the ranking row are one transaction: when the INSERT fails
\* on the unique constraint, session.close() ends the session without a
\* commit and neither is stored.
update_player_rating(d, day, player_id, new_rating) ==
    IF player_id \notin DOMAIN d.players
    THEN [db |-> d, ret |-> Raised("ValueError")]
    ELSE
    LET old_rating == d.players[player_id]
        ranking == PlayerRanking(Len(d.rankings) + 1, player_id, new_rating,
                                 day, new_rating - old_rating)
        d1 == [d EXCEPT !.players[player_id] = new_rating]
    IN  IF ~unique_player_date(d, ranking)
        THEN [db |-> d, ret |-> Raised("IntegrityError")]
        ELSE [db |-> [d1 EXCEPT !.rankings = Append(@, ranking)],
              ret |-> Returned(ranking.ranking_id)]

InitRating ==
    /\ variant = "rating"
    /\ hp = reset_stats
    /\ nla = nla_init
    /\ sna = sna_init
    /\ nlines = 0
    /\ last = Op("init", <<>>, None, <<>>)
    /\ file_exists = FALSE
    /\ file_bytes = <<>>
    /\ batch_size = 1
    /\ pc = "no_file"
    /\ reader = <<>>
    /\ batch_lines = <<>>
    /\ analyzers = [streaming |-> reset_stats, mmap |-> reset_stats]
    /\ outcome = [streaming |-> "not_run", mmap |-> "not_run"]
    /\ db = DbWithPlayers
    /\ mock = mock_init
    /\ sessions = <<>>
    /\ today = 1

\* service.update_player_rating(player_id, new_rating)
UpdatePlayerRating(player_id, new_rating) ==
    /\ variant = "rating"
    /\ LET r == update_player_rating(db, today, player_id, new_rating)
       IN  /\ db' = r.db
           /\ last' = Op("update_player_rating",
                         [player_id |-> player_id,
                          new_rating |-> new_rating], None, r.ret)
    /\ UNCHANGED <<variant, hp, nla, sna, nlines>>
    /\ UNCHANGED file_vars
    /\ UNCHANGED <<mock, sessions, today>>

\* midnight passes: date.today() gives the next day
Midnight ==
    /\ variant = "rating"
    /\ today < MaxDays
    /\ today' = today + 1
    /\ UNCHANGED analyzer_vars
    /\ UNCHANGED file_vars
    /\ UNCHANGED <<db, mock, sessions>>

NextRating ==
    \/ \E player_id \in PlayerIds, new_rating \in Ratings :
            UpdatePlayerRating(player_id, new_rating)
    \/ Midnight

SpecRating == InitRating /\ [][NextRating]_vars

\* the rows of a player in player_rankings, by index
RankingsOf(d, player_id) ==
    {i \in 1 .. Len(d.rankings) : d.rankings[i].player_id = player_id}

\* the index of the row of the player stored last
LatestRanking(d, player_id) ==
    CHOOSE i \in RankingsOf(d, player_id) :
        \A j \in RankingsOf(d, player_id) : j <= i

\* C23: after any sequence of update_player_rating calls, several for one
\* player on one day included, there is at most one PlayerRanking row per
\* (player, ranking_date), Player.rating equals the rating of the player's
\* most recently stored ranking row, and a call that fails leaves
\* Player.rating unchanged.
C23_RatingHistoryConsistent ==
    [][/\ \A i, j \in 1 .. Len(db'.rankings) :
            (/\ db'.rankings[i].player_id = db'.rankings[j].player_id
             /\ db'.rankings[i].ranking_date = db'.rankings[j].ranking_date)
                => i = j
       /\ \A p \in Players :
            RankingsOf(db', p) # {} =>
                db'.players[p] = db'.rankings[LatestRanking(db', p)].rating
       /\ (/\ last'.op = "update_player_rating"
           /\ last'.ret.exception # "none") =>
                db'.players = db.players]_vars

\* a second update of a player on one day was refused with another
\* rating than the stored one, after the player got a row on each of two
\* days
C23_Witness ==
    /\ last.op = "update_player_rating"
    /\ last.ret.exception = "IntegrityError"
    /\ Cardinality(RankingsOf(db, last.arg.player_id)) = 2
    /\ db.players[last.arg.player_id] # last.arg.new_rating

\* ------------------------------------------------------------------------
\* Claims checked under SpecFail: the counters during a run
\* ------------------------------------------------------------------------

\* the decoded lines process_file_mmap reads from the bytes
RECURSIVE MmapLines(_)
MmapLines(bytes) ==
    IF bytes = <<>> THEN <<>>
    ELSE LET line_bytes == readline(bytes)
         IN  <<decode(line_bytes)>>
             \o MmapLines(SubSeq(bytes, Len(line_bytes) + 1, Len(bytes)))

\* the counters are those of processing the first k of the lines, for
\* some k
AggregateOfPrefix(counters, lines) ==
    \E k \in 0 .. Len(lines) :
        counters = OneByOne(reset_stats, SubSeq(lines, 1, k))

\* C25: at every point of a run, hence at any abort or I/O failure, the
\* counters of the engine are those of aggregating a prefix of the lines
\* of the file: in process_file_mmap the lines read so far, in
\* process_file_streaming the lines of the batches already flushed (the
\* lines read into the batch not yet flushed are not counted).
C25_PrefixAggregate ==
    /\ AggregateOfPrefix(analyzers.streaming, LinesRead)
    /\ AggregateOfPrefix(analyzers.mmap, MmapLines(file_bytes))
    /\ pc = "streaming_loop" =>
        LET flushed == Len(LinesRead) - Len(reader) - Len(batch_lines)
        IN  /\ analyzers.streaming =
                    OneByOne(reset_stats, SubSeq(LinesRead, 1, flushed))
            /\ analyzers.streaming.total_lines_processed = flushed
    /\ pc = "mmap_loop" =>
        LET read == Len(MmapLines(file_bytes)) - Len(MmapLines(reader))
        IN  /\ analyzers.mmap =
                    OneByOne(reset_stats,
                             SubSeq(MmapLines(file_bytes), 1, read))
            /\ analyzers.mmap.total_lines_processed = read

\* process_file_streaming with batch_size 2 failed after it had read the
\* three lines of the file: the two lines of the flushed batch are counted,
\* one of them valid, the third line is not
C25_Witness ==
    /\ pc = "failed"
    /\ outcome.streaming = "io_error"
    /\ batch_size = 2
    /\ Len(LinesRead) = 3
    /\ reader = <<>>
    /\ analyzers.streaming.total_lines_processed = 2
    /\ analyzers.streaming.valid_lines_processed = 1

\* ------------------------------------------------------------------------
\* Membership calls in concurrent sessions
\* (src/chess_tournament_service.py)
\* ------------------------------------------------------------------------

\* the sessions that run calls of the service at the same time
SessionIds == {1, 2}

\* a session between two calls
Idle == [pc |-> "idle", op |-> "none", player_id |-> 0, club_id |-> 0,
         found |-> 0]

InitSessions ==
    /\ variant = "sessions"
    /\ hp = reset_stats
    /\ nla = nla_init
    /\ sna = sna_init
    /\ nlines = 0
    /\ last = Op("init", <<>>, None, <<>>)
    /\ file_exists = FALSE
    /\ file_bytes = <<>>
    /\ batch_size = 1
    /\ pc = "no_file"
    /\ reader = <<>>
    /\ batch_lines = <<>>
    /\ analyzers = [streaming |-> reset_stats, mmap |-> reset_stats]
    /\ outcome = [streaming |-> "not_run", mmap |-> "not_run"]
    /\ db = EmptyDb
    /\ mock = mock_init
    /\ sessions = [s \in SessionIds |-> Idle]
    /\ today = 1

\* a caller enters add_member_to_club or transfer_member: get_session()
SessionBegin(s, op, player_id, club_id) ==
    /\ variant = "sessions"
    /\ sessions[s].pc = "idle"
    /\ Len(db.members)
        + Cardinality({t \in SessionIds : sessions[t].pc # "idle"})
            < MaxMembers
    /\ sessions' = [sessions EXCEPT ![s] =
            [pc |-> "query", op |-> op, player_id |-> player_id,
             club_id |-> club_id, found |-> 0]]
    /\ UNCHANGED analyzer_vars
    /\ UNCHANGED file_vars
    /\ UNCHANGED <<db, mock, today>>

\* the query for the active membership of the player, .first(); with a
\* row found add_member_to_club raises ValueError and the session closes
SessionQuery(s) ==
    /\ variant = "sessions"
    /\ sessions[s].pc = "query"
    /\ \E found \in FirstActive(db, sessions[s].player_id) :
        IF sessions[s].op = "add_member_to_club" /\ found # 0
        THEN /\ sessions' = [sessions EXCEPT ![s] = Idle]
             /\ last' = Op(sessions[s].op,
                           <<sessions[s].player_id, sessions[s].club_id>>,
                           None,
                           add_member_to_club(db, sessions[s].player_id,
                                sessions[s].club_id, found).ret)
        ELSE /\ sessions' = [sessions EXCEPT ![s].pc = "commit",
                                             ![s].found = found]
             /\ UNCHANGED last
    /\ UNCHANGED <<variant, hp, nla, sna, nlines>>
    /\ UNCHANGED file_vars
    /\ UNCHANGED <<db, mock, today>>

\* session.commit() of the call: the changes the session made on what its
\* query had found reach the tables, and the call returns
SessionCommit(s) ==
    /\ variant = "sessions"
    /\ sessions[s].pc = "commit"
    /\ LET r == IF sessions[s].op = "add_member_to_club"
                THEN add_member_to_club(db, sessions[s].player_id,
                        sessions[s].club_id, sessions[s].found)
                ELSE transfer_member(db, sessions[s].player_id,
                        sessions[s].club_id, sessions[s].found)
       IN  /\ db' = r.db
           /\ last' = Op(sessions[s].op,
                         <<sessions[s].player_id, sessions[s].club_id>>,
                         None, r.ret)
    /\ sessions' = [sessions EXCEPT ![s] = Idle]
    /\ UNCHANGED <<variant, hp, nla, sna, nlines>>
    /\ UNCHANGED file_vars
    /\ UNCHANGED <<mock, today>>

NextSessions ==
    \/ \E s \in SessionIds,
          op \in {"add_member_to_club", "transfer_member"},
          player_id \in Players, club_id \in Clubs :
            SessionBegin(s, op, player_id, club_id)
    \/ \E s \in SessionIds : SessionQuery(s)
    \/ \E s \in SessionIds : SessionCommit(s)

SpecSessions == InitSessions /\ [][NextSessions]_vars

\* C26: when add_member_to_club and transfer_member calls for one player
\* run at the same time in separate sessions, each doing its query for
\* the active membership before the other commits, no interleaving leaves
\* the player with two Member rows of status ACTIVE.
C26_NoTwoActiveConcurrent ==
    \A p \in Players : ActiveCount(db, p) <= 1

\* ------------------------------------------------------------------------
\* One sequence of lines aggregated by the three analyzers
\* ------------------------------------------------------------------------

\* a fresh analyzer of each of the three variants
InitVariants ==
    /\ variant = "all"
    /\ hp = reset_stats
    /\ nla = nla_init
    /\ sna = sna_init
    /\ nlines = 0
    /\ last = Op("init", <<>>, None, <<>>)
    /\ file_exists = FALSE
    /\ file_bytes = <<>>
    /\ batch_size = 1
    /\ pc = "no_file"
    /\ reader = <<>>
    /\ batch_lines = <<>>
    /\ analyzers = [streaming |-> reset_stats, mmap |-> reset_stats]
    /\ outcome = [streaming |-> "not_run", mmap |-> "not_run"]
    /\ db = EmptyDb
    /\ mock = mock_init
    /\ sessions = <<>>
    /\ today = 1

\* the next line of the input reaches the three analyzers: the body of
\* the loop of analyze_nginx_logs, of NginxLogAnalyzer._process_batch and
\* of HighPerformanceNginxAnalyzer._process_batch
FeedLine(line) ==
    /\ variant = "all"
    /\ nlines < MaxLines
    /\ hp' = process_line(hp, line).self
    /\ nla' = nla_process_entry(nla, line).self
    /\ sna' = sna_line(sna, line)
    /\ nlines' = nlines + 1
    /\ last' = Op("line", line, None, <<>>)
    /\ UNCHANGED variant
    /\ UNCHANGED file_vars
    /\ UNCHANGED chess_vars

NextVariants == \E line \in Lines : FeedLine(line)

SpecVariants == InitVariants /\ [][NextVariants]_vars

\* C27: for the same sequence of input lines, analyze_nginx_logs,
\* NginxLogAnalyzer.process_log_file and
\* HighPerformanceNginxAnalyzer.process_file_streaming report the same
\* secure-referer count and the same (total, success) counters of each
\* date, also for lines with a non-zero zone offset, an unparsable
\* timestamp or an empty response-time field.
C27_VariantsAgree ==
    /\ hp.https_domain1_count = nla.https_domain1_count
    /\ hp.https_domain1_count = sna.https_domain1_count
    /\ hp.daily_stats = nla.daily_stats
    /\ hp.daily_stats = sna.daily_stats

\* ------------------------------------------------------------------------
\* Several files processed by one analyzer
\* ------------------------------------------------------------------------

\* the files the analyzer is run on
AccumFiles == SeqsUpTo(FileTokens, MaxFileLen - 2)

\* one run of the named strategy on an existing file of the given content
RunStrategyOn(strategy, self, bytes, size) ==
    IF strategy = "process_file_streaming"
    THEN process_file_streaming(self, TRUE, bytes, size)
    ELSE process_file_mmap(self, TRUE, bytes)

\* one analyzer that is kept over the runs, and for each of the two files
\* a fresh analyzer to run on that file alone
InitAccum ==
    /\ variant = "accum"
    /\ hp = reset_stats
    /\ nla = nla_init
    /\ sna = sna_init
    /\ nlines = 0
    /\ last = Op("init", <<>>, None, <<>>)
    /\ file_exists = FALSE
    /\ file_bytes = <<>>
    /\ batch_size \in 1 .. MaxBatch
    /\ pc = "no_file"
    /\ reader = <<>>
    /\ batch_lines = <<>>
    /\ analyzers = [a |-> reset_stats, b |-> reset_stats]
    /\ outcome = [a |-> "not_run", b |-> "not_run"]
    /\ db = EmptyDb
    /\ mock = mock_init
    /\ sessions = <<>>
    /\ today = 1

\* a run of the strategy on file A: on the kept analyzer and on the fresh
\* analyzer of A
ProcessFileA(strategy, bytes) ==
    /\ variant = "accum"
    /\ pc = "no_file"
    /\ file_exists' = TRUE
    /\ file_bytes' = bytes
    /\ hp' = RunStrategyOn(strategy, hp, bytes, batch_size).self
    /\ analyzers' = [analyzers EXCEPT !.a =
            RunStrategyOn(strategy, @, bytes, batch_size).self]
    /\ outcome' = [outcome EXCEPT !.a =
            RunStrategyOn(strategy, hp, bytes, batch_size).outcome]
    /\ last' = Op(strategy, bytes, None, <<>>)
    /\ pc' = "ran_a"
    /\ UNCHANGED <<variant, nla, sna, nlines>>
    /\ UNCHANGED <<batch_size, reader, batch_lines>>
    /\ UNCHANGED chess_vars

\* a run of the strategy on file B: on the kept analyzer and on the fresh
\* analyzer of B
ProcessFileB(strategy, bytes) ==
    /\ variant = "accum"
    /\ pc = "ran_a"
    /\ file_bytes' = bytes
    /\ hp' = RunStrategyOn(strategy, hp, bytes, batch_size).self
    /\ analyzers' = [analyzers EXCEPT !.b =
            RunStrategyOn(strategy, @, bytes, batch_size).self]
    /\ outcome' = [outcome EXCEPT !.b =
            RunStrategyOn(strategy, hp, bytes, batch_size).outcome]
    /\ last' = Op(strategy, bytes, None, <<>>)
    /\ pc' = "ran_b"
    /\ UNCHANGED <<variant, nla, sna, nlines>>
    /\ UNCHANGED <<file_exists, batch_size, reader, batch_lines>>
    /\ UNCHANGED chess_vars

\* analyzer.reset_stats() after some runs
ResetStatsCall ==
    /\ variant = "accum"
    /\ pc \in {"ran_a", "ran_b"}
    /\ hp' = reset_stats_on(hp)
    /\ last' = Op("reset_stats", <<>>, None, <<>>)
    /\ pc' = "was_reset"
    /\ UNCHANGED <<variant, nla, sna, nlines>>
    /\ UNCHANGED <<file_exists, file_bytes, batch_size, reader, batch_lines,
                   analyzers, outcome>>
    /\ UNCHANGED chess_vars

NextAccum ==
    \/ \E strategy \in Strategies, bytes \in AccumFiles :
            ProcessFileA(strategy, bytes)
    \/ \E strategy \in Strategies, bytes \in AccumFiles :
            ProcessFileB(strategy, bytes)
    \/ ResetStatsCall

SpecAccum == InitAccum /\ [][NextAccum]_vars

\* no counter of b is below that of a
NoCounterBelow(a, b) ==
    /\ a.https_domain1_count <= b.https_domain1_count
    /\ a.total_lines_processed <= b.total_lines_processed
    /\ a.valid_lines_processed <= b.valid_lines_processed
    /\ \A k \in DOMAIN a.daily_stats :
        /\ k \in DOMAIN b.daily_stats
        /\ a.daily_stats[k].total <= b.daily_stats[k].total
        /\ a.daily_stats[k].success <= b.daily_stats[k].success

\* C28: counters accumulate across runs on one analyzer:
\* process_file_streaming and process_file_mmap never reset the state, so
\* after file A and then file B on one HighPerformanceNginxAnalyzer every
\* counter is the sum of the counters A and B give on fresh instances;
\* only reset_stats returns the counters to zero and daily_stats to empty.
C28_Accumulates ==
    [][/\ pc' \in {"ran_a", "ran_b"} =>
            /\ hp' = Merge(analyzers'.a, analyzers'.b)
            /\ NoCounterBelow(hp, hp')
       /\ pc' = "was_reset" => hp' = reset_stats]_vars

\* file A and file B each hold one valid line, of different dates, and
\* the analyzer kept over both runs has counted both
C28_Witness ==
    /\ pc = "ran_b"
    /\ analyzers.a.valid_lines_processed = 1
    /\ analyzers.b.valid_lines_processed = 1
    /\ DOMAIN analyzers.a.daily_stats # DOMAIN analyzers.b.daily_stats
    /\ hp.valid_lines_processed = 2
    /\ Cardinality(DOMAIN hp.daily_stats) = 2

\* ------------------------------------------------------------------------
\* Claims checked under Spec: the counters of HighPerformanceNginxAnalyzer
\* against each other
\* ------------------------------------------------------------------------

\* the sum of daily_stats[d].total over the dates d
RECURSIVE SumOfTotals(_, _)
SumOfTotals(daily_stats, dates) ==
    IF dates = {} THEN 0
    ELSE LET d == CHOOSE x \in dates : TRUE
         IN  daily_stats[d].total + SumOfTotals(daily_stats, dates \ {d})

\* the valid lines that are in no entry of daily_stats
Undated(self) ==
    self.valid_lines_processed
        - SumOfTotals(self.daily_stats, DOMAIN self.daily_stats)

\* the line matches the layout and its timestamp gives no date key
ValidWithoutDate(line) ==
    /\ LayoutOk(line)
    /\ fast_parse_timestamp(
            log_pattern_match(strip(line)).groups.timestamp_str) = None

\* C29: in every reachable state of HighPerformanceNginxAnalyzer,
\* https_domain1_count <= valid_lines_processed and the sum of
\* daily_stats[d].total over all dates is <= valid_lines_processed, with
\* equality exactly when the timestamp of every valid line normalized:
\* the difference grows by one with each valid line whose timestamp gives
\* no date key, and with no other line.
C29_CountersBounded ==
    [][variant = "hp" =>
        /\ hp'.https_domain1_count <= hp'.valid_lines_processed
        /\ Undated(hp') >= 0
        /\ last'.op = "process_line" =>
            Undated(hp') = Undated(hp)
                + (IF ValidWithoutDate(last'.arg) THEN 1 ELSE 0)]_vars

\* three valid lines with the secure referer were counted, one of them
\* with a timestamp that gives no date key
C29_Witness ==
    /\ variant = "hp"
    /\ hp.valid_lines_processed = 3
    /\ hp.https_domain1_count = 3
    /\ Undated(hp) = 1

\* ------------------------------------------------------------------------
\* Claims checked under SpecStandings
\* ------------------------------------------------------------------------

\* the standing rows of the player in the tournament
StandingsOf(d, tournament_id, player_id) ==
    {s \in d.standings :
        s.tournament_id = tournament_id /\ s.player_id = player_id}

\* the standing counts the completed matches of the player in the
\* tournament; points in half points
StandingAddsUp(d, s) ==
    /\ s.games_played = s.wins + s.draws + s.losses
    /\ s.games_played =
        Cardinality(CompletedMatchesOf(d, s.tournament_id, s.player_id))
    /\ s.points = 2 * s.wins + s.draws

\* C30: after every update_match_result call, each registered participant
\* of that tournament has a standing with games_played = wins + draws +
\* losses = the number of the player's COMPLETED matches in the tournament
\* and points = wins + draws / 2, and for every completed match the
\* points it gives to its two players sum to 1.
C30_StandingsAddUp ==
    [][(/\ last'.op = "update_match_result"
        /\ last'.ret.exception = "none") =>
        LET t == db'.matches[last'.arg.match_id].tournament_id
        IN  /\ \A p \in ParticipantsOf(db', t) :
                /\ Cardinality(StandingsOf(db', t, p)) = 1
                /\ \A s \in StandingsOf(db', t, p) : StandingAddsUp(db', s)
            /\ \A i \in 1 .. Len(db'.matches) :
                db'.matches[i].status = "Completed" =>
                    get_result_for_player(db'.matches[i],
                            db'.matches[i].white_player_id)
                    + get_result_for_player(db'.matches[i],
                            db'.matches[i].black_player_id) = 2]_vars

====
